---- MODULE Spec2Model ----
(***************************************************************************)
(* Model of the nest-notifier webhook bridge.  Two deployed variants of    *)
(* the worker are modelled side by side:                                   *)
(*   "secured" - the authenticated worker (src/unnamed/part_005)           *)
(*   "worker"  - the multi-channel worker (src/src/index.ts)               *)
(* and, for the two-phase send, the earlier multi-channel worker           *)
(*   "twophase" - src/unnamed/part_006                                     *)
(* The template processor of the automation script (src/unnamed/part_011)  *)
(* is modelled as far as its recursive resolver resolveLinkedValue goes.    *)
(* Strings that the code compares character by character (secrets,        *)
(* signatures, timestamps) are sequences of one-character strings.         *)
(***************************************************************************)
EXTENDS Integers, Sequences, FiniteSets, TLC

VARIABLES impl, env, req, pc, resp, calls, verified, parsedForm, chat, walk

vars == <<impl, env, req, pc, resp, calls, verified, parsedForm, chat, walk>>

(***************************************************************************)
(* Bounds of the model                                                     *)
(***************************************************************************)
\* Date.now()/1000 of the earliest request
Epoch == 1000
\* requests are handled at Epoch .. Epoch + MaxClockSkew
MaxClockSkew == 1
\* longest slackChannelIds list of a notify request
MaxChannels == 2

(***************************************************************************)
(* Characters, character codes and bit operations                          *)
(***************************************************************************)
Alphabet ==
  <<"0", "1", "2", "3", "4", "5", "6", "7", "8", "9", ":", "=",
    "a", "b", "c", "d", "e", "f", "k", "q", "s", "v", "x">>

AlphabetCodes ==
  <<48, 49, 50, 51, 52, 53, 54, 55, 56, 57, 58, 61,
    97, 98, 99, 100, 101, 102, 107, 113, 115, 118, 120>>

\* String.prototype.charCodeAt
CharCode(c) ==
  AlphabetCodes[CHOOSE i \in 1..Len(Alphabet) : Alphabet[i] = c]

RECURSIVE BitXor(_, _)
\* the ^ operator on non-negative integers
BitXor(a, b) ==
  IF a = 0 /\ b = 0 THEN 0
  ELSE (IF (a % 2) # (b % 2) THEN 1 ELSE 0) + 2 * BitXor(a \div 2, b \div 2)

RECURSIVE BitOr(_, _)
\* the | operator on non-negative integers
BitOr(a, b) ==
  IF a = 0 /\ b = 0 THEN 0
  ELSE (IF (a % 2) = 1 \/ (b % 2) = 1 THEN 1 ELSE 0) + 2 * BitOr(a \div 2, b \div 2)

(***************************************************************************)
(* Optional values                                                         *)
(***************************************************************************)
\* headers.get() of an absent header (null) / an unset environment variable
Missing == <<"<missing>">>

\* JavaScript truthiness of a string-or-null value
Truthy(s) == s # Missing /\ Len(s) > 0

(***************************************************************************)
(* timingSafeEqual                                                         *)
(***************************************************************************)
RECURSIVE XorAccumulate(_, _, _, _)
\* the for loop of timingSafeEqual: result |= a.charCodeAt(i) ^ b.charCodeAt(i)
XorAccumulate(a, b, i, result) ==
  IF i > Len(a) THEN result
  ELSE XorAccumulate(a, b, i + 1,
                     BitOr(result, BitXor(CharCode(a[i]), CharCode(b[i]))))

RECURSIVE Examined(_, _, _)
\* the positions the for loop of timingSafeEqual visits from position i on: the loop
\* has no break and no return
Examined(a, b, i) ==
  IF i > Len(a) THEN <<>>
  ELSE <<i>> \o Examined(a, b, i + 1)

\* a comparison that forgets the length check and looks at the common prefix
timingSafeEqualPrefix(a, b) ==
  LET n == IF Len(a) < Len(b) THEN Len(a) ELSE Len(b)
  IN  XorAccumulate(SubSeq(a, 1, n), SubSeq(b, 1, n), 1, 0) = 0

\* a loop that assigns (result = ...) instead of accumulating (result |= ...): the last
\* position alone decides
timingSafeEqualLastOnly(a, b) ==
  IF Len(a) # Len(b) THEN FALSE
  ELSE Len(a) = 0 \/ BitXor(CharCode(a[Len(a)]), CharCode(b[Len(a)])) = 0

timingSafeEqual(a, b) ==
  IF Len(a) # Len(b) THEN FALSE
  ELSE XorAccumulate(a, b, 1, 0) = 0

(***************************************************************************)
(* Timestamps                                                              *)
(***************************************************************************)
Digits == <<"0", "1", "2", "3", "4", "5", "6", "7", "8", "9">>

IsDigit(c) == \E i \in 1..10 : Digits[i] = c

DigitVal(c) == (CHOOSE i \in 1..10 : Digits[i] = c) - 1

\* the value parseInt yields when the string has no leading digit
NaN == -1

RECURSIVE ParseDigits(_, _, _)
ParseDigits(s, i, acc) ==
  IF i > Len(s) \/ ~IsDigit(s[i]) THEN acc
  ELSE ParseDigits(s, i + 1, acc * 10 + DigitVal(s[i]))

\* parseInt(s, 10): the longest prefix of decimal digits, NaN when it is empty
ParseInt(s) ==
  IF Len(s) = 0 \/ ~IsDigit(s[1]) THEN NaN ELSE ParseDigits(s, 1, 0)

\* a < b on numbers: every comparison with NaN is false
NumLess(a, b) == a # NaN /\ b # NaN /\ a < b

RECURSIVE ToStr(_)
\* Number.prototype.toString() of a non-negative integer
ToStr(n) ==
  IF n < 10 THEN <<Digits[n + 1]>>
  ELSE ToStr(n \div 10) \o <<Digits[(n % 10) + 1]>>

\* the replay window of isValidSlackRequest, in seconds
Window == 60 * 5

\* a timestamp check that is never stale
IsStaleNever(timestamp, now) == FALSE

\* a staleness check whose boundary is exclusive: <= instead of <
IsStaleAtBoundary(timestamp, now) ==
  ParseInt(timestamp) # NaN /\ ParseInt(timestamp) <= now - Window

\* parseInt(timestamp, 10) < fiveMinutesAgo
IsStale(timestamp, now) == NumLess(ParseInt(timestamp), now - Window)

(***************************************************************************)
(* Signatures                                                              *)
(***************************************************************************)
HexDigits ==
  <<"0", "1", "2", "3", "4", "5", "6", "7", "8", "9", "a", "b", "c", "d", "e", "f">>

\* b.toString(16).padStart(2, '0') of one byte
ByteToHex(b) == <<HexDigits[(b \div 16) + 1], HexDigits[(b % 16) + 1]>>

RECURSIVE Absorb(_, _, _)
\* folds the characters of s into a one-byte running digest
Absorb(h, s, i) ==
  IF i > Len(s) THEN h
  ELSE Absorb((h * 31 + CharCode(s[i])) % 256, s, i + 1)

\* crypto.subtle.sign('HMAC', key, message): a keyed digest, here one byte wide
Hmac(key, message) == <<Absorb(Absorb(17, key, 1), message, 1)>>

\* `v0:${timestamp}:${body}`
SigBasestring(timestamp, body) == <<"v", "0", ":">> \o timestamp \o <<":">> \o body

\* `v0=${hexSignature}`
ExpectedSignature(secret, timestamp, body) ==
  <<"v", "0", "=">> \o ByteToHex(Hmac(secret, SigBasestring(timestamp, body))[1])

(***************************************************************************)
(* JavaScript values.  Every value is a record tagged with its type, a     *)
(* string is a sequence of chunks, a JSON text is a string whose content   *)
(* is the value it parses to.                                              *)
(***************************************************************************)
Undefined == [t |-> "undefined"]

Null == [t |-> "null"]

Str(chunks) == [t |-> "string", v |-> chunks]

Obj(r) == [t |-> "object", v |-> r]

Arr(s) == [t |-> "array", v |-> s]

\* a value on which a property read throws a TypeError
IsNullish(x) == x.t \in {"undefined", "null"}

\* x.k for a value x that is not nullish
Prop(x, k) == IF x.t = "object" /\ k \in DOMAIN x.v THEN x.v[k] ELSE Undefined

\* truthiness of a value
JsTruthy(x) ==
  CASE x.t \in {"undefined", "null"} -> FALSE
    [] x.t = "string" -> Len(x.v) > 0
    [] OTHER -> TRUE

RECURSIVE DropUndefined(_)
\* JSON.stringify omits the keys whose value is undefined
DropUndefined(x) ==
  CASE x.t = "object" ->
         [x EXCEPT !.v = [k \in {j \in DOMAIN x.v : x.v[j].t # "undefined"} |->
                            DropUndefined(x.v[k])]]
    [] x.t = "array" ->
         Arr([i \in DOMAIN x.v |->
                IF x.v[i].t = "undefined" THEN Null ELSE DropUndefined(x.v[i])])
    [] OTHER -> x

\* JSON.stringify(x)
JsonStringify(x) == [t |-> "json", ok |-> TRUE, val |-> DropUndefined(x)]

\* a string that is not JSON
MalformedJson == [t |-> "json", ok |-> FALSE, val |-> Undefined]

\* JSON.parse(s) throws a SyntaxError; null is coerced to "null" and parses
JsonParseThrows(s) == ~(s.t = "null" \/ (s.t = "json" /\ s.ok))

\* JSON.parse(s) when it does not throw
JsonParse(s) == IF s.t = "null" THEN Null ELSE s.val

\* x === 'literal' for a string literal given as its chunks
StrEq(x, chunks) == x.t = "string" /\ x.v = chunks

\* array[0]
First(x) == IF x.t = "array" /\ Len(x.v) > 0 THEN x.v[1] ELSE Undefined

\* String(x) as used by template literals and String.prototype.replace
ToText(x) ==
  CASE x.t = "string" -> x.v
    [] x.t = "undefined" -> <<"undefined">>
    [] x.t = "null" -> <<"null">>
    [] OTHER -> <<"[object Object]">>

\* an object whose key order is known: Object.entries follows insertion order
Fields(order, r) == [t |-> "object", v |-> r, order |-> order]

\* Object.entries(x)
Entries(x) == [i \in 1..Len(x.order) |-> <<x.order[i], x.v[x.order[i]]>>]

(***************************************************************************)
(* Message rendering                                                       *)
(***************************************************************************)
\* `{${key}}`
Placeholder(key) ==
  CASE key = "Name" -> "{Name}"
    [] key = "Status" -> "{Status}"
    [] key = "Ghost" -> "{Ghost}"
    [] OTHER -> "{?}"

\* text.replace(pattern, value) with a string pattern: the first occurrence only
ReplaceFirst(text, pattern, value) ==
  IF \E i \in 1..Len(text) : text[i] = pattern
  THEN LET i == CHOOSE j \in 1..Len(text) :
                  text[j] = pattern /\ \A k \in 1..(j - 1) : text[k] # pattern
       IN  SubSeq(text, 1, i - 1) \o value \o SubSeq(text, i + 1, Len(text))
  ELSE text

RECURSIVE Substitute(_, _, _)
\* the for loop of formatSlackMessage over Object.entries(record.fields)
Substitute(text, entries, i) ==
  IF i > Len(entries) THEN text
  ELSE Substitute(Str(ReplaceFirst(text.v, Placeholder(entries[i][1]),
                                   ToText(entries[i][2]))),
                  entries, i + 1)

\* formatSlackMessage throws a TypeError (either variant)
FormatThrows(record, config) ==
  \/ IsNullish(config)
  \/ IsNullish(record)
  \/ IsNullish(Prop(record, "fields"))
  \/ /\ Prop(config, "messageTemplate").t # "string"
     /\ Len(Prop(record, "fields").order) > 0

\* the substituted text of formatSlackMessage
RenderText(record, config) ==
  IF Prop(config, "messageTemplate").t # "string"
  THEN Prop(config, "messageTemplate")
  ELSE Substitute(Prop(config, "messageTemplate"), Entries(Prop(record, "fields")), 1)

SectionBlock(text) ==
  Obj([type |-> Str(<<"section">>),
       text |-> Obj([type |-> Str(<<"mrkdwn">>), text |-> text])])

\* a button whose encoded context keeps the label of the configuration only
ButtonLabelOnly(actionId, record, buttonConfig) ==
  Obj([type |-> Str(<<"button">>),
       text |-> Obj([type |-> Str(<<"plain_text">>), text |-> Prop(buttonConfig, "label")]),
       value |-> JsonStringify(Obj([recordId |-> Prop(record, "id"),
                                    buttonConfig |-> Obj([label |-> Prop(buttonConfig, "label")])])),
       action_id |-> Str(actionId)])

\* one button element of the secured worker
Button(actionId, record, buttonConfig) ==
  Obj([type |-> Str(<<"button">>),
       text |-> Obj([type |-> Str(<<"plain_text">>), text |-> Prop(buttonConfig, "label")]),
       value |-> JsonStringify(Obj([recordId |-> Prop(record, "id"),
                                    buttonConfig |-> buttonConfig])),
       action_id |-> Str(actionId)])

\* formatSlackMessage of the secured worker
SecuredFormatSlackMessage(record, config) ==
  LET text == RenderText(record, config)
      primary == IF JsTruthy(Prop(config, "primaryButton"))
                 THEN <<Button(<<"primary", "_action">>, record, Prop(config, "primaryButton"))>>
                 ELSE <<>>
      secondary == IF JsTruthy(Prop(config, "secondaryButton"))
                   THEN <<Button(<<"secondary", "_action">>, record, Prop(config, "secondaryButton"))>>
                   ELSE <<>>
      actionElements == primary \o secondary
      blocks == IF Len(actionElements) > 0
                THEN <<SectionBlock(text),
                       Obj([type |-> Str(<<"actions">>), elements |-> Arr(actionElements)])>>
                ELSE <<SectionBlock(text)>>
  IN  Obj([text |-> text, blocks |-> Arr(blocks)])

\* one button element of the multi-channel worker
WorkerButton(actionId, label, record, config) ==
  Obj([type |-> Str(<<"button">>),
       text |-> Obj([type |-> Str(<<"plain_text">>), text |-> label]),
       value |-> JsonStringify(Obj([recordId |-> Prop(record, "id"),
                                    statusFieldName |-> Prop(config, "statusFieldName")])),
       action_id |-> Str(actionId)])

\* formatSlackMessage of the multi-channel worker
WorkerFormatSlackMessage(record, config) ==
  LET text == RenderText(record, config)
  IN  Obj([text |-> text,
           blocks |-> Arr(<<SectionBlock(text),
                            Obj([type |-> Str(<<"actions">>),
                                 elements |-> Arr(<<
                                   WorkerButton(<<"approve">>, Prop(config, "approveButtonText"),
                                                record, config),
                                   WorkerButton(<<"ignore">>, Str(<<"Ignore">>),
                                                record, config)>>)])>>)])

\* formatUpdatedMessage throws a TypeError (either variant)
FormatUpdatedThrows(originalMessage) ==
  \/ IsNullish(originalMessage)
  \/ Prop(originalMessage, "blocks").t # "array"

\* the block that replaces an actions block in the secured worker
ContextBlock(buttonLabel, userName) ==
  Obj([type |-> Str(<<"context">>),
       elements |-> Arr(<<Obj([type |-> Str(<<"mrkdwn">>),
                               text |-> Str(<<"*">> \o ToText(buttonLabel) \o <<"*", " by ">>
                                            \o ToText(userName))])>>)])

\* a rewrite that adds the acknowledgment below the blocks when it finds no buttons
SecuredFormatUpdatedMessageOrAppend(originalMessage, buttonLabel, userName) ==
  LET blocks == Prop(originalMessage, "blocks").v
  IN  Obj([text |-> Prop(originalMessage, "text"),
           blocks |-> Arr(IF \E i \in 1..Len(blocks) :
                                StrEq(Prop(blocks[i], "type"), <<"actions">>)
                          THEN [i \in 1..Len(blocks) |->
                                  IF StrEq(Prop(blocks[i], "type"), <<"actions">>)
                                  THEN ContextBlock(buttonLabel, userName)
                                  ELSE blocks[i]]
                          ELSE Append(blocks, ContextBlock(buttonLabel, userName)))])

\* a rewrite that adds the acknowledgment below the blocks and keeps the buttons
SecuredFormatUpdatedMessageKeepControls(originalMessage, buttonLabel, userName) ==
  Obj([text |-> Prop(originalMessage, "text"),
       blocks |-> Arr(Append(Prop(originalMessage, "blocks").v,
                             ContextBlock(buttonLabel, userName)))])

\* formatUpdatedMessage of the secured worker
SecuredFormatUpdatedMessage(originalMessage, buttonLabel, userName) ==
  LET blocks == Prop(originalMessage, "blocks").v
  IN  Obj([text |-> Prop(originalMessage, "text"),
           blocks |-> Arr([i \in 1..Len(blocks) |->
                             IF StrEq(Prop(blocks[i], "type"), <<"actions">>)
                             THEN ContextBlock(buttonLabel, userName)
                             ELSE blocks[i]])])

\* formatUpdatedMessage of the multi-channel worker
WorkerFormatUpdatedMessage(originalMessage, action, userName) ==
  LET blocks == Prop(originalMessage, "blocks").v
      verdict == IF StrEq(action, <<"approve">>) THEN "Approved" ELSE "Ignored"
  IN  Obj([text |-> Prop(originalMessage, "text"),
           blocks |-> Arr([i \in 1..Len(blocks) |->
                             IF StrEq(Prop(blocks[i], "type"), <<"actions">>)
                             THEN SectionBlock(Str(<<"*", verdict, "*", " by ">> \o ToText(userName)))
                             ELSE blocks[i]])])

(***************************************************************************)
(* Interaction decoding                                                    *)
(***************************************************************************)
\* x.endsWith(suffix) for a suffix that is one chunk
EndsWith(x, suffix) == x.t = "string" /\ Len(x.v) > 0 /\ x.v[Len(x.v)] = suffix

\* the key a computed property name [x] denotes
KeyOf(x) == IF x.t = "string" /\ Len(x.v) = 1 THEN x.v[1] ELSE ToText(x)[1]

\* request.formData() or JSON.parse(formData.get('payload')) throws
FormParseThrows(body) == body.kind # "form" \/ JsonParseThrows(body.payload)

\* JSON.parse(formData.get('payload'))
FormPayload(body) == JsonParse(body.payload)

IsBlockActions(p) == StrEq(Prop(p, "type"), <<"block_actions">>)

\* a condition that looks at the action id and not at the interaction type
SecuredMatchesAnyType(p) ==
  /\ ~IsNullish(First(Prop(p, "actions")))
  /\ EndsWith(Prop(First(Prop(p, "actions")), "action_id"), "_action")

\* the if condition of handleSlackInteraction in the secured worker
SecuredMatches(p) ==
  /\ IsBlockActions(p)
  /\ ~IsNullish(First(Prop(p, "actions")))
  /\ EndsWith(Prop(First(Prop(p, "actions")), "action_id"), "_action")

\* a decoder that takes the action the payload lists last
ActionValueOfLast(p) ==
  JsonParse(Prop(IF Prop(p, "actions").t = "array" /\ Len(Prop(p, "actions").v) > 0
                 THEN Prop(p, "actions").v[Len(Prop(p, "actions").v)]
                 ELSE Undefined, "value"))

\* the context decoded from the first action's value
ActionValue(p) == JsonParse(Prop(First(Prop(p, "actions")), "value"))

\* a TypeError or SyntaxError is thrown before the patch decision (secured worker)
SecuredDecodeThrows(p) ==
  \/ IsNullish(p)
  \/ /\ IsBlockActions(p)
     /\ \/ IsNullish(Prop(p, "actions"))
        \/ /\ ~IsNullish(First(Prop(p, "actions")))
           /\ Prop(First(Prop(p, "actions")), "action_id").t # "string"
  \/ /\ SecuredMatches(p)
     /\ \/ JsonParseThrows(Prop(First(Prop(p, "actions")), "value"))
        \/ IsNullish(ActionValue(p))
        \/ IsNullish(Prop(p, "user"))
        \/ IsNullish(Prop(ActionValue(p), "buttonConfig"))

\* a patch decision that looks at the field alone
SecuredWantsPatchFieldOnly(buttonConfig) == JsTruthy(Prop(buttonConfig, "field"))

\* buttonConfig.field && buttonConfig.value !== undefined
SecuredWantsPatch(buttonConfig) ==
  JsTruthy(Prop(buttonConfig, "field")) /\ Prop(buttonConfig, "value").t # "undefined"

\* the if condition of handleSlackInteraction in the multi-channel worker
WorkerMatches(p) ==
  /\ IsBlockActions(p)
  /\ ~IsNullish(First(Prop(p, "actions")))
  /\ \/ StrEq(Prop(First(Prop(p, "actions")), "action_id"), <<"approve">>)
     \/ StrEq(Prop(First(Prop(p, "actions")), "action_id"), <<"ignore">>)

\* an error is thrown before the patch decision (multi-channel worker)
WorkerDecodeThrows(p) ==
  \/ IsNullish(p)
  \/ /\ IsBlockActions(p)
     /\ \/ IsNullish(Prop(p, "actions"))
        \/ IsNullish(First(Prop(p, "actions")))
  \/ /\ WorkerMatches(p)
     /\ \/ JsonParseThrows(Prop(First(Prop(p, "actions")), "value"))
        \/ IsNullish(Prop(p, "user"))
        \/ /\ StrEq(Prop(First(Prop(p, "actions")), "action_id"), <<"approve">>)
           /\ IsNullish(ActionValue(p))

\* action === 'approve'
WorkerWantsPatch(p) == StrEq(Prop(First(Prop(p, "actions")), "action_id"), <<"approve">>)

\* the metadata branch of the multi-channel worker is taken
HasMetadata(p) ==
  /\ JsTruthy(Prop(p, "message"))
  /\ JsTruthy(Prop(Prop(p, "message"), "metadata"))
  /\ JsTruthy(Prop(Prop(Prop(p, "message"), "metadata"), "event_payload"))

\* the channelInfo list of the multi-channel worker
WorkerChannelInfo(p) ==
  IF HasMetadata(p)
  THEN LET info == Prop(Prop(Prop(Prop(p, "message"), "metadata"), "event_payload"),
                        "channel_info")
       IN  IF JsTruthy(info) THEN info ELSE Arr(<<>>)
  ELSE Arr(<<Obj([channelId |-> Prop(Prop(p, "channel"), "id"),
                  ts |-> Prop(Prop(p, "message"), "ts")])>>)

\* building channelInfo or the rewritten message throws (multi-channel worker)
WorkerRewriteThrows(p) ==
  \/ /\ ~HasMetadata(p)
     /\ IsNullish(Prop(p, "channel")) \/ IsNullish(Prop(p, "message"))
  \/ FormatUpdatedThrows(Prop(p, "message"))

(***************************************************************************)
(* Inputs: environments, headers and bodies of inbound requests            *)
(***************************************************************************)
Impls == {"secured", "worker", "twophase"}

\* the variants whose fetch dispatches without authentication
Unsecured == {"worker", "twophase"}

\* the environment of a deployment; the multi-channel worker has no secrets
Envs(variant) ==
  IF variant = "secured"
  THEN {[AIRTABLE_WEBHOOK_SECRET |-> w, SLACK_SIGNING_SECRET |-> <<"k">>,
         AIRTABLE_BASE_ID |-> Str(<<"app1">>), AIRTABLE_TABLE_NAME |-> Str(<<"tbl1">>)] :
          w \in {Missing, <<>>, <<"s">>}}
  ELSE {[AIRTABLE_WEBHOOK_SECRET |-> Missing, SLACK_SIGNING_SECRET |-> Missing,
         AIRTABLE_BASE_ID |-> Str(<<"app1">>), AIRTABLE_TABLE_NAME |-> Str(<<"tbl1">>)]}

Methods == {"POST", "GET"}

SecretHeaders == {Missing, <<>>, <<"s">>, <<"x">>, <<"s", "x">>}

TimestampHeaders ==
  {Missing, <<"x">>} \cup {ToStr(Epoch + d) : d \in {0 - 301, 0 - 300, 0, 600}}

BodyBytes == {<<"a">>, <<"b">>}

\* signatures a sender may attach to a request with this timestamp and body
SignatureHeaders(timestamp, bytes) ==
  LET ts == IF timestamp = Missing THEN ToStr(Epoch) ELSE timestamp
  IN  {<<"v", "0", "=">>}
      \cup {ExpectedSignature(k, ts, bytes) : k \in {<<"k">>, <<"q">>}}
      \cup {ExpectedSignature(<<"k">>, ts, b) : b \in BodyBytes \ {bytes}}

ChannelPool == <<"C1", "C2", "C3", "C4">>

ChannelLists == {Arr([i \in 1..n |-> Str(<<ChannelPool[i]>>)]) : n \in 0..MaxChannels}

ApproveButton ==
  Obj([label |-> Str(<<"Approve">>), field |-> Str(<<"Status">>), value |-> Str(<<"Approved">>)])

AckButton == Obj([label |-> Str(<<"Ignore">>)])

\* misconfigured buttons: one of field and value without the other
FieldOnlyButton == Obj([label |-> Str(<<"Flag">>), field |-> Str(<<"Status">>)])

ValueOnlyButton == Obj([label |-> Str(<<"Flag">>), value |-> Str(<<"Approved">>)])

\* a button whose label is the empty string
EmptyLabelButton ==
  Obj([label |-> Str(<<>>), field |-> Str(<<"Status">>), value |-> Str(<<"Approved">>)])

\* a button that clears a field: its value is null
ClearButton == Obj([label |-> Str(<<"Clear">>), field |-> Str(<<"Status">>), value |-> Null])

TheRecord ==
  Obj([id |-> Str(<<"rec1">>), fields |-> Fields(<<"Name">>, [Name |-> Str(<<"Acme">>)])])

NotifyConfig(template, channels, primary, secondary) ==
  Obj([messageTemplate |-> template, slackChannelIds |-> channels,
       primaryButton |-> primary, secondaryButton |-> secondary,
       approveButtonText |-> Str(<<"Approve">>), statusFieldName |-> Str(<<"Status">>),
       baseId |-> Str(<<"app2">>), tableId |-> Str(<<"tbl2">>)])

TheTemplate == Str(<<"Hi ", "{Name}">>)

\* a template that names a field twice, and one that names a field the record lacks
RepeatingTemplate == Str(<<"{Name}", " and ", "{Name}">>)

GhostTemplate == Str(<<"Hi ", "{Name}", ", ", "{Ghost}">>)

\* a record with a field whose value reads like a placeholder of another field, its
\* fields in the given insertion order
NestingRecord(order) ==
  Obj([id |-> Str(<<"rec1">>),
       fields |-> Fields(order, [Name |-> Str(<<"{Status}">>), Status |-> Str(<<"Open">>)])])

\* the JSON documents a notify request may carry
NotifyPayloads ==
  {Obj([record |-> NestingRecord(order),
        config |-> NotifyConfig(TheTemplate, Arr(<<Str(<<"C1">>)>>), Undefined, Undefined)]) :
     order \in {<<"Name", "Status">>, <<"Status", "Name">>}}
  \cup
  {Obj([record |-> TheRecord, config |-> NotifyConfig(TheTemplate, c, p, s)]) :
     c \in ChannelLists, p \in {Undefined, ApproveButton, AckButton},
     s \in {Undefined, AckButton}}
  \cup {Obj([record |-> TheRecord,
              config |-> NotifyConfig(TheTemplate, Arr(<<Str(<<"C1">>)>>), ClearButton,
                                      ApproveButton)])}
  \cup {Obj([record |-> TheRecord,
              config |-> NotifyConfig(t, Arr(<<Str(<<"C1">>)>>), Undefined, Undefined)]) :
          t \in {RepeatingTemplate, GhostTemplate}}
  \cup {Obj([record |-> TheRecord,
              config |-> NotifyConfig(TheTemplate, Arr(<<Str(<<"C1">>)>>), EmptyLabelButton, s)]) :
          s \in {Undefined, AckButton}}
  \cup {Null,
        Obj([record |-> TheRecord]),
        Obj([config |-> NotifyConfig(TheTemplate, Arr(<<Str(<<"C1">>)>>), Undefined, Undefined)]),
        Obj([record |-> TheRecord,
             config |-> NotifyConfig(Undefined, Arr(<<Str(<<"C1">>)>>), Undefined, Undefined)]),
        Obj([record |-> TheRecord,
             config |-> NotifyConfig(TheTemplate, Undefined, ApproveButton, Undefined)])}

\* the encoded contexts a clicked control may carry
Contexts ==
  {JsonStringify(Obj([recordId |-> Str(<<"rec1">>), buttonConfig |-> ApproveButton])),
   JsonStringify(Obj([recordId |-> Str(<<"rec1">>), buttonConfig |-> AckButton])),
   JsonStringify(Obj([recordId |-> Str(<<"rec1">>), buttonConfig |-> FieldOnlyButton])),
   JsonStringify(Obj([recordId |-> Str(<<"rec1">>), buttonConfig |-> ValueOnlyButton])),
   JsonStringify(Obj([recordId |-> Str(<<"rec2">>), buttonConfig |-> ClearButton])),
   JsonStringify(Obj([recordId |-> Str(<<"rec1">>), buttonConfig |-> ApproveButton,
                      baseId |-> Str(<<"app2">>), tableId |-> Str(<<"tbl2">>)])),
   JsonStringify(Obj([recordId |-> Str(<<"rec1">>), statusFieldName |-> Str(<<"Status">>)])),
   JsonStringify(Null),
   MalformedJson}

ActionIds == {<<"primary", "_action">>, <<"approve">>, <<"ignore">>, <<"other">>}

Actions == {Obj([action_id |-> Str(a), value |-> c]) : a \in ActionIds, c \in Contexts}

TheUser == Obj([name |-> Str(<<"Bo">>)])

TheChannel == Obj([id |-> Str(<<"C1">>)])

PostedBlocks ==
  Arr(<<SectionBlock(Str(<<"Hi ", "Acme">>)),
        Obj([type |-> Str(<<"actions">>), elements |-> Arr(<<>>)])>>)

\* a posted message without metadata, as the chat platform echoes it on a click
TheMessage ==
  Obj([ts |-> Str(<<"t1">>), text |-> Str(<<"Hi ", "Acme">>), blocks |-> PostedBlocks])

\* a posted message that carries the receipts of n channels as metadata
MessageWithReceipts(n) ==
  Obj([ts |-> Str(<<"t", ChannelPool[1]>>), text |-> Str(<<"Hi ", "Acme">>), blocks |-> PostedBlocks,
       metadata |-> Obj([event_type |-> Str(<<"multi_channel_message">>),
                         event_payload |-> Obj([channel_info |->
                           Arr([i \in 1..n |-> Obj([channelId |-> Str(<<ChannelPool[i]>>),
                                                    ts |-> Str(<<"t", ChannelPool[i]>>)])])])])])

Interaction(type, actions, user, channel, message) ==
  Obj([type |-> type, actions |-> actions, user |-> user, channel |-> channel,
       message |-> message])

\* a copy as the multi-channel worker posts it to C1: its metadata lists the channel
\* and no timestamp
MessageWithChannelOnly ==
  Obj([ts |-> Str(<<"t", ChannelPool[1]>>), text |-> Str(<<"Hi ", "Acme">>),
       blocks |-> PostedBlocks,
       metadata |-> Obj([event_type |-> Str(<<"multi_channel_message">>),
                         event_payload |-> Obj([channel_info |->
                           Arr(<<Obj([channelId |-> Str(<<ChannelPool[1]>>)])>>)])])])

\* the JSON documents the payload field of an interaction request may carry
InteractionPayloads ==
  {Interaction(Str(<<"block_actions">>),
               Arr(<<Obj([action_id |-> Str(<<"approve">>),
                          value |-> JsonStringify(Obj([recordId |-> Str(<<"rec1">>),
                                      statusFieldName |-> Str(<<"Status">>)]))])>>),
               TheUser, TheChannel, MessageWithChannelOnly)}
  \cup
  {Interaction(Str(<<"block_actions">>), Arr(<<a>>), TheUser, TheChannel, TheMessage) :
     a \in Actions}
  \cup {Interaction(Str(<<"block_actions">>),
                    Arr(<<Obj([action_id |-> Str(<<"approve">>),
                               value |-> JsonStringify(Obj([recordId |-> Str(<<"rec1">>),
                                           statusFieldName |-> Str(<<"Status">>)]))])>>),
                    TheUser, TheChannel, MessageWithReceipts(n)) : n \in 0..MaxChannels}
  \cup {Interaction(Str(<<"view_submission">>), Undefined, TheUser, Undefined, Undefined),
        Interaction(Str(<<"message_action">>),
                    Arr(<<Obj([action_id |-> Str(<<"primary", "_action">>),
                               value |-> JsonStringify(Obj([recordId |-> Str(<<"rec1">>),
                                                            buttonConfig |-> ApproveButton]))])>>),
                    TheUser, TheChannel, TheMessage),
        Interaction(Str(<<"block_actions">>),
                    Arr(<<Obj([action_id |-> Str(<<"primary", "_action">>),
                               value |-> JsonStringify(Obj([recordId |-> Str(<<"rec1">>),
                                                            buttonConfig |-> AckButton]))]),
                          Obj([action_id |-> Str(<<"primary", "_action">>),
                               value |-> JsonStringify(Obj([recordId |-> Str(<<"rec2">>),
                                                            buttonConfig |-> ClearButton]))])>>),
                    TheUser, TheChannel, TheMessage),
        Interaction(Str(<<"block_actions">>),
                    Arr(<<Obj([action_id |-> Str(<<"primary", "_action">>),
                               value |-> JsonStringify(Obj([recordId |-> Str(<<"rec1">>),
                                                            buttonConfig |-> ApproveButton]))]),
                          Obj([value |-> MalformedJson])>>),
                    TheUser, TheChannel, TheMessage),
        Interaction(Str(<<"block_actions">>),
                    Arr(<<Obj([action_id |-> Str(<<"other", "_action">>),
                               value |-> JsonStringify(Obj([recordId |-> Str(<<"rec1">>),
                                                            buttonConfig |-> ApproveButton]))])>>),
                    TheUser, TheChannel, TheMessage),
        Interaction(Str(<<"block_actions">>), Undefined, TheUser, TheChannel, TheMessage),
        Interaction(Str(<<"block_actions">>), Arr(<<>>), TheUser, TheChannel, TheMessage),
        Interaction(Str(<<"block_actions">>), Arr(<<Obj([value |-> MalformedJson])>>),
                    TheUser, TheChannel, TheMessage),
        Null}
  \cup {Interaction(Str(<<"block_actions">>),
                    Arr(<<Obj([action_id |-> Str(a),
                               value |-> JsonStringify(Obj([recordId |-> Str(<<"rec1">>),
                                           buttonConfig |-> ApproveButton,
                                           statusFieldName |-> Str(<<"Status">>)]))])>>),
                    u, c, m) :
          a \in {<<"primary", "_action">>, <<"approve">>},
          u \in {TheUser, Undefined}, c \in {TheChannel, Undefined},
          m \in {TheMessage, Undefined, Obj([ts |-> Str(<<"t1">>)])}}

\* raw request bodies: the bytes the signature ranges over and what parses out of them
Bodies ==
  {[bytes |-> <<>>, kind |-> "empty", payload |-> Undefined]}
  \cup {[bytes |-> b, kind |-> "json", payload |-> j] :
          b \in BodyBytes, j \in {JsonStringify(x) : x \in NotifyPayloads} \cup {MalformedJson}}
  \cup {[bytes |-> b, kind |-> "form", payload |-> j] :
          b \in BodyBytes,
          j \in {JsonStringify(x) : x \in InteractionPayloads} \cup {MalformedJson, Null}}

\* new Request(...) as the handler receives it, handled at time now
Request(method, signature, timestamp, secret, body, now) ==
  [method |-> method, signature |-> signature, timestamp |-> timestamp, secret |-> secret,
   body |-> body, now |-> now]

Clock == Epoch..(Epoch + MaxClockSkew)

(***************************************************************************)
(* Requests in flight                                                      *)
(***************************************************************************)
\* slots for concurrently handled requests
Reqs == {1, 2, 3}

\* the slots the sequential specification uses
Solo == {1}

NoRequest ==
  [method |-> "none", signature |-> Missing, timestamp |-> Missing, secret |-> Missing,
   body |-> [bytes |-> <<>>, kind |-> "empty", payload |-> Undefined], now |-> Epoch]

NoResponse == [status |-> 0, body |-> "<pending>"]

\* no placeholder of the automation script is being resolved
NoWalk ==
  [len |-> 0, tail |-> "value", back |-> 0, home |-> 0, frames |-> <<>>, visited |-> {},
   outcome |-> "idle", cause |-> "none", value |-> <<>>]

\* new Response(body, { status })
Response(body, status) == [status |-> status, body |-> body]

\* an exception escapes the fetch handler: the promise returned by fetch rejects and
\* the runtime answers the client with an error page instead of a handler response
Uncaught == [status |-> 500, body |-> "<uncaught exception>"]

\* an outbound fetch() that has been issued and not yet settled
Call(api, target, body) == [api |-> api, target |-> target, body |-> body, state |-> "inflight"]

Outcomes == {"ok", "failed"}

Settled(c) == c.state # "inflight"

TypeOK ==
  /\ impl \in Impls
  /\ \A r \in Reqs :
       /\ pc[r] \in {"idle", "received", "verifying", "webhook", "posting", "attaching",
                     "interaction", "patching", "updating", "done"}
       /\ verified[r] \in {"unchecked", "ok", "failed"}
       /\ parsedForm[r] \in BOOLEAN
       /\ \A i \in 1..Len(calls[r]) :
            /\ calls[r][i].api \in {"chat.postMessage", "chat.update", "airtable.patch"}
            /\ calls[r][i].state \in {"inflight", "ok", "failed"}

Init ==
  /\ impl \in Impls
  /\ env \in Envs(impl)
  /\ req = [r \in Reqs |-> NoRequest]
  /\ pc = [r \in Reqs |-> "idle"]
  /\ resp = [r \in Reqs |-> NoResponse]
  /\ calls = [r \in Reqs |-> <<>>]
  /\ verified = [r \in Reqs |-> "unchecked"]
  /\ parsedForm = [r \in Reqs |-> FALSE]
  /\ chat = [posted |-> TheMessage, shown |-> TheMessage]
  /\ walk = NoWalk

\* the handler of request r returns response x
Finish(r, x) ==
  /\ pc' = [pc EXCEPT ![r] = "done"]
  /\ resp' = [resp EXCEPT ![r] = x]

\* a client sends a request
Receive(r) ==
  /\ pc[r] = "idle"
  /\ \E m \in Methods, b \in Bodies, n \in Clock :
       \/ \E g \in {Missing, <<>>}, t \in {Missing, ToStr(Epoch)}, x \in SecretHeaders :
            req' = [req EXCEPT ![r] = Request(m, g, t, x, b, n)]
       \/ \E t \in TimestampHeaders, x \in {Missing, <<"s">>} :
            \E g \in SignatureHeaders(t, b.bytes) :
              req' = [req EXCEPT ![r] = Request(m, g, t, x, b, n)]
  /\ pc' = [pc EXCEPT ![r] = "received"]
  /\ UNCHANGED <<walk, chat, impl, env, resp, calls, verified, parsedForm>>

\* the webhook-secret check of fetch in the secured worker
SecretAccepted(expectedSecret, receivedSecret) ==
  ~(\/ ~Truthy(expectedSecret)
    \/ ~Truthy(receivedSecret)
    \/ ~timingSafeEqual(expectedSecret, receivedSecret))

\* a fetch that dispatches on the headers without looking at the method
SecuredFetchAnyMethod(r) ==
  /\ impl = "secured"
  /\ IF Truthy(req[r].signature)
     THEN pc' = [pc EXCEPT ![r] = "verifying"] /\ UNCHANGED resp
     ELSE IF ~SecretAccepted(env.AIRTABLE_WEBHOOK_SECRET, req[r].secret)
     THEN Finish(r, Response("Unauthorized", 401))
     ELSE pc' = [pc EXCEPT ![r] = "webhook"] /\ UNCHANGED resp

\* a fetch that tries the webhook secret first and the signature header after it
SecuredFetchSecretFirst(r) ==
  /\ impl = "secured"
  /\ IF req[r].method # "POST"
     THEN Finish(r, Response("Method not allowed", 405))
     ELSE IF SecretAccepted(env.AIRTABLE_WEBHOOK_SECRET, req[r].secret)
     THEN pc' = [pc EXCEPT ![r] = "webhook"] /\ UNCHANGED resp
     ELSE IF Truthy(req[r].signature)
     THEN pc' = [pc EXCEPT ![r] = "verifying"] /\ UNCHANGED resp
     ELSE Finish(r, Response("Unauthorized", 401))

\* fetch of the secured worker, up to its first await
SecuredFetch(r) ==
  /\ impl = "secured"
  /\ IF req[r].method # "POST"
     THEN Finish(r, Response("Method not allowed", 405))
     ELSE IF Truthy(req[r].signature)
     THEN pc' = [pc EXCEPT ![r] = "verifying"] /\ UNCHANGED resp
     ELSE IF ~SecretAccepted(env.AIRTABLE_WEBHOOK_SECRET, req[r].secret)
     THEN Finish(r, Response("Unauthorized", 401))
     ELSE pc' = [pc EXCEPT ![r] = "webhook"] /\ UNCHANGED resp

\* fetch of the multi-channel worker
WorkerFetch(r) ==
  /\ impl \in Unsecured
  /\ IF req[r].method = "POST"
     THEN IF Truthy(req[r].signature)
          THEN pc' = [pc EXCEPT ![r] = "interaction"] /\ UNCHANGED resp
          ELSE pc' = [pc EXCEPT ![r] = "webhook"] /\ UNCHANGED resp
     ELSE Finish(r, Response("Method not allowed", 405))

Fetch(r) ==
  /\ pc[r] = "received"
  /\ SecuredFetch(r) \/ WorkerFetch(r)
  /\ UNCHANGED <<walk, chat, impl, env, req, calls, verified, parsedForm>>

\* a verification that signs a canonical re-serialisation of the body
isValidSlackRequestReserialized(request, secret, now) ==
  IF ~Truthy(request.timestamp) \/ ~Truthy(request.signature) \/ Len(request.body.bytes) = 0
  THEN FALSE
  ELSE IF IsStale(request.timestamp, now)
  THEN FALSE
  ELSE timingSafeEqual(request.signature,
                       ExpectedSignature(secret, request.timestamp, <<"a">>))

\* isValidSlackRequest(request, secret) evaluated at time now
isValidSlackRequest(request, secret, now) ==
  IF ~Truthy(request.timestamp) \/ ~Truthy(request.signature) \/ Len(request.body.bytes) = 0
  THEN FALSE
  ELSE IF IsStale(request.timestamp, now)
  THEN FALSE
  ELSE timingSafeEqual(request.signature,
                       ExpectedSignature(secret, request.timestamp, request.body.bytes))

\* the secured worker verifies the signature over the raw body of the cloned request
Verify(r) ==
  /\ pc[r] = "verifying"
  /\ IF isValidSlackRequest(req[r], env.SLACK_SIGNING_SECRET, req[r].now)
     THEN /\ verified' = [verified EXCEPT ![r] = "ok"]
          /\ pc' = [pc EXCEPT ![r] = "interaction"]
          /\ UNCHANGED resp
     ELSE /\ verified' = [verified EXCEPT ![r] = "failed"]
          /\ Finish(r, Response("Invalid Slack signature", 401))
  /\ UNCHANGED <<walk, chat, impl, env, req, calls, parsedForm>>

(***************************************************************************)
(* Notify pipeline                                                         *)
(***************************************************************************)
\* request.json() throws a SyntaxError
JsonBodyThrows(body) == body.kind # "json" \/ JsonParseThrows(body.payload)

\* a fan-out that stops at the first channel
SecuredPostsFirstOnly(channelIds, message) ==
  [i \in 1..(IF Len(channelIds.v) > 0 THEN 1 ELSE 0) |->
     Call("chat.postMessage", Obj([channel |-> channelIds.v[i]]), message)]

\* one chat.postMessage call per entry of channelIds (secured worker)
SecuredPosts(channelIds, message) ==
  [i \in 1..Len(channelIds.v) |->
     Call("chat.postMessage", Obj([channel |-> channelIds.v[i]]), message)]

\* one chat.postMessage call per entry of channelIds, with the channel list as metadata
WorkerPosts(channelIds, message) ==
  LET channelInfo == Arr([i \in 1..Len(channelIds.v) |-> Obj([channelId |-> channelIds.v[i]])])
      withMetadata ==
        Obj([text |-> Prop(message, "text"), blocks |-> Prop(message, "blocks"),
             metadata |-> Obj([event_type |-> Str(<<"multi_channel_message">>),
                               event_payload |-> Obj([channel_info |-> channelInfo])])])
  IN  [i \in 1..Len(channelIds.v) |->
         Call("chat.postMessage", Obj([channel |-> channelIds.v[i]]), withMetadata)]

\* handleWebhook of the secured worker, up to the await of Promise.allSettled
SecuredWebhook(r) ==
  /\ impl = "secured"
  /\ IF JsonBodyThrows(req[r].body)
     THEN Finish(r, Response("Invalid JSON payload", 400)) /\ UNCHANGED calls
     ELSE LET payload == JsonParse(req[r].body.payload)
              record == Prop(payload, "record")
              config == Prop(payload, "config")
          IN  IF \/ IsNullish(payload)
                 \/ FormatThrows(record, config)
                 \/ Prop(config, "slackChannelIds").t # "array"
              THEN Finish(r, Response("Error processing webhook", 500)) /\ UNCHANGED calls
              ELSE /\ calls' = [calls EXCEPT ![r] =
                                  SecuredPosts(Prop(config, "slackChannelIds"),
                                               SecuredFormatSlackMessage(record, config))]
                   /\ pc' = [pc EXCEPT ![r] = "posting"]
                   /\ UNCHANGED resp

\* a handleWebhook that keeps the channel list in a module-level variable which every
\* notify request overwrites on entry: while another request is posting, r posts to the
\* channels that request stored
WorkerWebhookSharedChannels(r) ==
  /\ impl = "worker"
  /\ IF JsonBodyThrows(req[r].body)
     THEN Finish(r, Uncaught) /\ UNCHANGED calls
     ELSE LET payload == JsonParse(req[r].body.payload)
              record == Prop(payload, "record")
              config == Prop(payload, "config")
              posting == {o \in Reqs \ {r} : pc[o] = "posting"}
              channelIds ==
                IF posting = {} THEN Prop(config, "slackChannelIds")
                ELSE Arr([i \in 1..Len(calls[CHOOSE o \in posting : TRUE]) |->
                            Prop(calls[CHOOSE o \in posting : TRUE][i].target, "channel")])
          IN  IF \/ IsNullish(payload)
                 \/ FormatThrows(record, config)
                 \/ Prop(config, "slackChannelIds").t # "array"
              THEN Finish(r, Uncaught) /\ UNCHANGED calls
              ELSE /\ calls' = [calls EXCEPT ![r] =
                                  WorkerPosts(channelIds,
                                              WorkerFormatSlackMessage(record, config))]
                   /\ pc' = [pc EXCEPT ![r] = "posting"]
                   /\ UNCHANGED resp

\* handleWebhook of the multi-channel worker, up to the await of Promise.all
WorkerWebhook(r) ==
  /\ impl = "worker"
  /\ IF JsonBodyThrows(req[r].body)
     THEN Finish(r, Uncaught) /\ UNCHANGED calls
     ELSE LET payload == JsonParse(req[r].body.payload)
              record == Prop(payload, "record")
              config == Prop(payload, "config")
          IN  IF \/ IsNullish(payload)
                 \/ FormatThrows(record, config)
                 \/ Prop(config, "slackChannelIds").t # "array"
              THEN Finish(r, Uncaught) /\ UNCHANGED calls
              ELSE /\ calls' = [calls EXCEPT ![r] =
                                  WorkerPosts(Prop(config, "slackChannelIds"),
                                              WorkerFormatSlackMessage(record, config))]
                   /\ pc' = [pc EXCEPT ![r] = "posting"]
                   /\ UNCHANGED resp

\* handleWebhook of the two-phase worker, up to the await of the first Promise.all
TwoPhaseWebhook(r) ==
  /\ impl = "twophase"
  /\ IF JsonBodyThrows(req[r].body)
     THEN Finish(r, Uncaught) /\ UNCHANGED calls
     ELSE LET payload == JsonParse(req[r].body.payload)
              record == Prop(payload, "record")
              config == Prop(payload, "config")
          IN  IF \/ IsNullish(payload)
                 \/ FormatThrows(record, config)
                 \/ Prop(config, "slackChannelIds").t # "array"
              THEN Finish(r, Uncaught) /\ UNCHANGED calls
              ELSE /\ calls' = [calls EXCEPT ![r] =
                                  SecuredPosts(Prop(config, "slackChannelIds"),
                                               WorkerFormatSlackMessage(record, config))]
                   /\ pc' = [pc EXCEPT ![r] = "posting"]
                   /\ UNCHANGED resp

Webhook(r) ==
  /\ pc[r] = "webhook"
  /\ SecuredWebhook(r) \/ WorkerWebhook(r) \/ TwoPhaseWebhook(r)
  /\ UNCHANGED <<walk, chat, impl, env, req, verified, parsedForm>>

\* the platform settles call i of request r
Settle(r, i, outcome) == calls' = [calls EXCEPT ![r][i].state = outcome]

\* a chat.postMessage call succeeds, is answered with an error, or fails in transit
PostDone(r) ==
  /\ pc[r] \in {"posting", "done"}
  /\ \E i \in 1..Len(calls[r]), outcome \in Outcomes :
       /\ calls[r][i].api = "chat.postMessage"
       /\ calls[r][i].state = "inflight"
       /\ Settle(r, i, outcome)
  /\ UNCHANGED <<walk, chat, impl, env, req, pc, resp, verified, parsedForm>>

\* Promise.allSettled has settled: every call is settled
AllSettled(cs) == \A i \in 1..Len(cs) : Settled(cs[i])

\* Promise.all has settled: every call succeeded, or one has failed
AllResolved(cs) == \A i \in 1..Len(cs) : cs[i].state = "ok"

AnyRejected(cs) == \E i \in 1..Len(cs) : cs[i].state = "failed"

\* the rejected alternative of handleWebhook: fail hard when a channel failed
SecuredWebhookRespondFailHard(r) ==
  /\ impl = "secured"
  /\ AllSettled(calls[r])
  /\ IF AnyRejected(calls[r])
     THEN Finish(r, Response("Webhook processed with some errors", 500))
     ELSE Finish(r, Response("Webhook processed", 200))

\* the secured worker answers once Promise.allSettled settles
SecuredWebhookRespond(r) ==
  /\ impl = "secured"
  /\ AllSettled(calls[r])
  /\ Finish(r, Response("Webhook processed", 200))

\* a handleWebhook that awaits Promise.allSettled and answers 200 whatever the outcomes
WorkerWebhookRespondSettled(r) ==
  /\ impl = "worker"
  /\ AllSettled(calls[r])
  /\ Finish(r, Response("Webhook processed", 200))

\* the multi-channel worker answers once Promise.all settles
WorkerWebhookRespond(r) ==
  /\ impl = "worker"
  /\ \/ AllResolved(calls[r]) /\ Finish(r, Response("Webhook processed", 200))
     \/ AnyRejected(calls[r]) /\ Finish(r, Response("Error processing webhook", 500))

\* the timestamp the chat platform returns for the message it posted to a channel
PostedTs(channelId) == Str(<<"t">> \o ToText(channelId))

\* the receipts of the posted copies: channelInfo of the two-phase worker
Receipts(posts) ==
  Arr([i \in 1..Len(posts) |->
         Obj([channelId |-> Prop(posts[i].target, "channel"),
              ts |-> PostedTs(Prop(posts[i].target, "channel"))])])

\* the chat.update request of updateSlackMessageMetadata
AttachCall(channelId, ts, channelInfo) ==
  Call("chat.update", Obj([channel |-> channelId, ts |-> ts]),
       Obj([metadata |-> Obj([event_type |-> Str(<<"multi_channel_message">>),
                              event_payload |-> Obj([channel_info |-> channelInfo])])]))

\* an attach phase that starts as soon as the first post has succeeded
AttachMetadataEarly(r) ==
  /\ pc[r] = "posting"
  /\ impl = "twophase"
  /\ \E i \in 1..Len(calls[r]) : calls[r][i].state = "ok"
  /\ calls' = [calls EXCEPT ![r] =
                 calls[r] \o [i \in 1..Len(calls[r]) |->
                                AttachCall(Prop(calls[r][i].target, "channel"),
                                           PostedTs(Prop(calls[r][i].target, "channel")),
                                           Receipts(calls[r]))]]
  /\ pc' = [pc EXCEPT ![r] = "attaching"]
  /\ UNCHANGED <<walk, chat, impl, env, req, resp, verified, parsedForm>>

\* the two-phase worker, once every post has succeeded, attaches the receipts of all
\* copies to each copy
AttachMetadata(r) ==
  /\ pc[r] = "posting"
  /\ impl = "twophase"
  /\ AllResolved(calls[r])
  /\ calls' = [calls EXCEPT ![r] =
                 calls[r] \o [i \in 1..Len(calls[r]) |->
                                AttachCall(Prop(calls[r][i].target, "channel"),
                                           PostedTs(Prop(calls[r][i].target, "channel")),
                                           Receipts(calls[r]))]]
  /\ pc' = [pc EXCEPT ![r] = "attaching"]
  /\ UNCHANGED <<walk, chat, impl, env, req, resp, verified, parsedForm>>

\* the two-phase worker has no try/catch: a failed post or a failed attach escapes
TwoPhaseWebhookRespond(r) ==
  /\ impl = "twophase"
  /\ \/ pc[r] = "posting" /\ AnyRejected(calls[r]) /\ Finish(r, Uncaught)
     \/ /\ pc[r] = "attaching"
        /\ \/ AllResolved(calls[r]) /\ Finish(r, Response("Webhook processed", 200))
           \/ AnyRejected(calls[r]) /\ Finish(r, Uncaught)

WebhookRespond(r) ==
  /\ pc[r] \in {"posting", "attaching"}
  /\ \/ pc[r] = "posting" /\ (SecuredWebhookRespond(r) \/ WorkerWebhookRespond(r))
     \/ TwoPhaseWebhookRespond(r)
  /\ UNCHANGED <<walk, chat, impl, env, req, calls, verified, parsedForm>>

(***************************************************************************)
(* Interaction pipeline                                                    *)
(***************************************************************************)
\* a PATCH request that also writes the value into a second field
PatchCallTwoFields(recordId, fieldName, newValue) ==
  Call("airtable.patch",
       Obj([baseId |-> env.AIRTABLE_BASE_ID, tableId |-> env.AIRTABLE_TABLE_NAME,
            recordId |-> recordId]),
       DropUndefined(Obj([fields |-> Obj([k \in {KeyOf(fieldName), "Notes"} |-> newValue])])))

\* the PATCH request of updateAirtableRecord
PatchCall(recordId, fieldName, newValue) ==
  Call("airtable.patch",
       Obj([baseId |-> env.AIRTABLE_BASE_ID, tableId |-> env.AIRTABLE_TABLE_NAME,
            recordId |-> recordId]),
       DropUndefined(Obj([fields |-> Obj([k \in {KeyOf(fieldName)} |-> newValue])])))

\* the chat.update request of updateSlackMessage
UpdateCall(channelId, ts, updatedMessage) ==
  Call("chat.update", Obj([channel |-> channelId, ts |-> ts]), updatedMessage)

\* a rewrite that acknowledges with the value written to the record instead of the label
SecuredRewriteWithValue(r, cs) ==
  LET p == FormPayload(req[r].body)
      buttonConfig == Prop(ActionValue(p), "buttonConfig")
      updatedMessage ==
        SecuredFormatUpdatedMessage(Prop(p, "message"),
                                    IF Prop(buttonConfig, "value").t = "string"
                                    THEN Prop(buttonConfig, "value")
                                    ELSE Prop(buttonConfig, "label"),
                                    Prop(Prop(p, "user"), "name"))
  IN  IF FormatUpdatedThrows(Prop(p, "message"))
      THEN Finish(r, Uncaught) /\ calls' = [calls EXCEPT ![r] = cs]
      ELSE IF IsNullish(Prop(p, "channel"))
      THEN /\ Finish(r, Response("Interaction handled", 200))
           /\ calls' = [calls EXCEPT ![r] = cs]
      ELSE /\ calls' = [calls EXCEPT ![r] =
                          Append(cs, UpdateCall(Prop(Prop(p, "channel"), "id"),
                                                Prop(Prop(p, "message"), "ts"),
                                                updatedMessage))]
           /\ pc' = [pc EXCEPT ![r] = "updating"]
           /\ UNCHANGED resp

\* the secured worker rewrites the clicked message: lines 269-276 of its handler
SecuredRewrite(r, cs) ==
  LET p == FormPayload(req[r].body)
      buttonConfig == Prop(ActionValue(p), "buttonConfig")
      updatedMessage ==
        SecuredFormatUpdatedMessage(Prop(p, "message"), Prop(buttonConfig, "label"),
                                    Prop(Prop(p, "user"), "name"))
  IN  IF FormatUpdatedThrows(Prop(p, "message"))
      THEN Finish(r, Uncaught) /\ calls' = [calls EXCEPT ![r] = cs]
      ELSE IF IsNullish(Prop(p, "channel"))
      THEN /\ Finish(r, Response("Interaction handled", 200))
           /\ calls' = [calls EXCEPT ![r] = cs]
      ELSE /\ calls' = [calls EXCEPT ![r] =
                          Append(cs, UpdateCall(Prop(Prop(p, "channel"), "id"),
                                                Prop(Prop(p, "message"), "ts"),
                                                updatedMessage))]
           /\ pc' = [pc EXCEPT ![r] = "updating"]
           /\ UNCHANGED resp

\* variant of WorkerRewrite: rewrites the clicked copy only, whatever the metadata lists
WorkerRewriteOriginOnly(r, cs) ==
  LET p == FormPayload(req[r].body)
      updatedMessage ==
        WorkerFormatUpdatedMessage(Prop(p, "message"),
                                   Prop(First(Prop(p, "actions")), "action_id"),
                                   Prop(Prop(p, "user"), "name"))
  IN  IF WorkerRewriteThrows(p) \/ IsNullish(Prop(p, "channel"))
      THEN Finish(r, Uncaught) /\ calls' = [calls EXCEPT ![r] = cs]
      ELSE /\ calls' = [calls EXCEPT ![r] =
                          Append(cs, UpdateCall(Prop(Prop(p, "channel"), "id"),
                                                Prop(Prop(p, "message"), "ts"),
                                                updatedMessage))]
           /\ pc' = [pc EXCEPT ![r] = "updating"]
           /\ UNCHANGED resp

\* the multi-channel worker rewrites every copy: lines 168-193 of its handler
WorkerRewrite(r, cs) ==
  LET p == FormPayload(req[r].body)
      updatedMessage ==
        WorkerFormatUpdatedMessage(Prop(p, "message"),
                                   Prop(First(Prop(p, "actions")), "action_id"),
                                   Prop(Prop(p, "user"), "name"))
      channelInfo == WorkerChannelInfo(p).v
  IN  IF WorkerRewriteThrows(p)
      THEN Finish(r, Uncaught) /\ calls' = [calls EXCEPT ![r] = cs]
      ELSE /\ calls' = [calls EXCEPT ![r] =
                          cs \o [i \in 1..Len(channelInfo) |->
                                   UpdateCall(Prop(channelInfo[i], "channelId"),
                                              Prop(channelInfo[i], "ts"), updatedMessage)]]
           /\ pc' = [pc EXCEPT ![r] = "updating"]
           /\ UNCHANGED resp

\* reading channel_info or building the rewritten message throws (two-phase worker)
TwoPhaseRewriteThrows(p) ==
  \/ IsNullish(Prop(p, "message"))
  \/ IsNullish(Prop(Prop(p, "message"), "metadata"))
  \/ IsNullish(Prop(Prop(Prop(p, "message"), "metadata"), "event_payload"))
  \/ FormatUpdatedThrows(Prop(p, "message"))
  \/ Prop(Prop(Prop(Prop(p, "message"), "metadata"), "event_payload"), "channel_info").t
       # "array"

\* the two-phase worker rewrites every copy named in the metadata: lines 169-176
TwoPhaseRewrite(r, cs) ==
  LET p == FormPayload(req[r].body)
      updatedMessage ==
        WorkerFormatUpdatedMessage(Prop(p, "message"),
                                   Prop(First(Prop(p, "actions")), "action_id"),
                                   Prop(Prop(p, "user"), "name"))
      channelInfo ==
        Prop(Prop(Prop(Prop(p, "message"), "metadata"), "event_payload"), "channel_info").v
  IN  IF TwoPhaseRewriteThrows(p)
      THEN Finish(r, Uncaught) /\ calls' = [calls EXCEPT ![r] = cs]
      ELSE /\ calls' = [calls EXCEPT ![r] =
                          cs \o [i \in 1..Len(channelInfo) |->
                                   UpdateCall(Prop(channelInfo[i], "channelId"),
                                              Prop(channelInfo[i], "ts"), updatedMessage)]]
           /\ pc' = [pc EXCEPT ![r] = "updating"]
           /\ UNCHANGED resp

\* handleSlackInteraction of the secured worker, up to its first outbound call
SecuredInteract(r) ==
  /\ impl = "secured"
  /\ IF FormParseThrows(req[r].body)
     THEN Finish(r, Uncaught) /\ UNCHANGED calls
     ELSE LET p == FormPayload(req[r].body)
              value == ActionValue(p)
              buttonConfig == Prop(value, "buttonConfig")
          IN  IF SecuredDecodeThrows(p)
              THEN Finish(r, Uncaught) /\ UNCHANGED calls
              ELSE IF ~SecuredMatches(p)
              THEN Finish(r, Response("Interaction handled", 200)) /\ UNCHANGED calls
              ELSE IF SecuredWantsPatch(buttonConfig)
              THEN /\ calls' = [calls EXCEPT ![r] =
                                  <<PatchCall(Prop(value, "recordId"),
                                              Prop(buttonConfig, "field"),
                                              Prop(buttonConfig, "value"))>>]
                   /\ pc' = [pc EXCEPT ![r] = "patching"]
                   /\ UNCHANGED resp
              ELSE SecuredRewrite(r, <<>>)

\* handleSlackInteraction of the multi-channel worker, up to its first outbound call
WorkerInteract(r) ==
  /\ impl = "worker"
  /\ IF FormParseThrows(req[r].body)
     THEN Finish(r, Uncaught) /\ UNCHANGED calls
     ELSE LET p == FormPayload(req[r].body)
              value == ActionValue(p)
          IN  IF WorkerDecodeThrows(p)
              THEN Finish(r, Uncaught) /\ UNCHANGED calls
              ELSE IF ~WorkerMatches(p)
              THEN Finish(r, Response("Interaction handled", 200)) /\ UNCHANGED calls
              ELSE IF WorkerWantsPatch(p)
              THEN /\ calls' = [calls EXCEPT ![r] =
                                  <<PatchCall(Prop(value, "recordId"),
                                              Prop(value, "statusFieldName"),
                                              Str(<<"Approved">>))>>]
                   /\ pc' = [pc EXCEPT ![r] = "patching"]
                   /\ UNCHANGED resp
              ELSE WorkerRewrite(r, <<>>)

\* handleSlackInteraction of the two-phase worker, up to its first outbound call
TwoPhaseInteract(r) ==
  /\ impl = "twophase"
  /\ IF FormParseThrows(req[r].body)
     THEN Finish(r, Uncaught) /\ UNCHANGED calls
     ELSE LET p == FormPayload(req[r].body)
              value == ActionValue(p)
          IN  IF WorkerDecodeThrows(p)
              THEN Finish(r, Uncaught) /\ UNCHANGED calls
              ELSE IF ~WorkerMatches(p)
              THEN Finish(r, Response("Interaction handled", 200)) /\ UNCHANGED calls
              ELSE IF WorkerWantsPatch(p)
              THEN /\ calls' = [calls EXCEPT ![r] =
                                  <<PatchCall(Prop(value, "recordId"),
                                              Prop(value, "statusFieldName"),
                                              Str(<<"Approved">>))>>]
                   /\ pc' = [pc EXCEPT ![r] = "patching"]
                   /\ UNCHANGED resp
              ELSE TwoPhaseRewrite(r, <<>>)

Interact(r) ==
  /\ pc[r] = "interaction"
  /\ parsedForm' = [parsedForm EXCEPT ![r] = TRUE]
  /\ SecuredInteract(r) \/ WorkerInteract(r) \/ TwoPhaseInteract(r)
  /\ UNCHANGED <<walk, chat, impl, env, req, verified>>

\* the patch settles; the secured worker catches a failure and goes on
SecuredPatchDone(r, outcome) ==
  /\ impl = "secured"
  /\ SecuredRewrite(r, [calls[r] EXCEPT ![1].state = outcome])

\* the patch settles; in the multi-channel worker a failure escapes the handler
WorkerPatchDone(r, outcome) ==
  /\ impl = "worker"
  /\ IF outcome = "failed"
     THEN /\ Finish(r, Uncaught)
          /\ calls' = [calls EXCEPT ![r][1].state = outcome]
     ELSE WorkerRewrite(r, [calls[r] EXCEPT ![1].state = outcome])

\* the patch settles; in the two-phase worker a failure escapes the handler
TwoPhasePatchDone(r, outcome) ==
  /\ impl = "twophase"
  /\ IF outcome = "failed"
     THEN /\ Finish(r, Uncaught)
          /\ calls' = [calls EXCEPT ![r][1].state = outcome]
     ELSE TwoPhaseRewrite(r, [calls[r] EXCEPT ![1].state = outcome])

PatchDone(r) ==
  /\ pc[r] = "patching"
  /\ \E outcome \in Outcomes :
       SecuredPatchDone(r, outcome) \/ WorkerPatchDone(r, outcome) \/ TwoPhasePatchDone(r, outcome)
  /\ UNCHANGED <<walk, chat, impl, env, req, verified, parsedForm>>

\* a chat.update call succeeds or fails
UpdateDone(r) ==
  /\ pc[r] \in {"attaching", "updating", "done"}
  /\ \E i \in 1..Len(calls[r]), outcome \in Outcomes :
       /\ calls[r][i].api = "chat.update"
       /\ calls[r][i].state = "inflight"
       /\ Settle(r, i, outcome)
  /\ UNCHANGED <<walk, chat, impl, env, req, pc, resp, verified, parsedForm>>

\* the update calls of request r
Updates(cs) == SelectSeq(cs, LAMBDA c : c.api = "chat.update")

\* the two-phase worker awaits Promise.all of the updates without try/catch
TwoPhaseInteractRespond(r) ==
  /\ impl = "twophase"
  /\ \/ AllResolved(Updates(calls[r])) /\ Finish(r, Response("Interaction handled", 200))
     \/ AnyRejected(Updates(calls[r])) /\ Finish(r, Uncaught)

\* a handler that reports a failed update to the chat platform
InteractRespondFailHard(r) ==
  /\ pc[r] = "updating"
  /\ \/ impl = "secured" /\ AllSettled(Updates(calls[r]))
     \/ impl = "worker" /\ (AllResolved(Updates(calls[r])) \/ AnyRejected(Updates(calls[r])))
  /\ IF AnyRejected(Updates(calls[r]))
     THEN Finish(r, Response("Error updating message", 500))
     ELSE Finish(r, Response("Interaction handled", 200))
  /\ UNCHANGED <<walk, chat, impl, env, req, calls, verified, parsedForm>>

\* the handler answers once its await on the update calls settles
InteractRespond(r) ==
  /\ pc[r] = "updating"
  /\ \/ /\ \/ impl = "secured" /\ AllSettled(Updates(calls[r]))
           \/ /\ impl = "worker"
              /\ AllResolved(Updates(calls[r])) \/ AnyRejected(Updates(calls[r]))
        /\ Finish(r, Response("Interaction handled", 200))
     \/ TwoPhaseInteractRespond(r)
  /\ UNCHANGED <<walk, chat, impl, env, req, calls, verified, parsedForm>>

\* the request is over and its request-scoped values are discarded
Reset(r) ==
  /\ pc[r] = "done"
  /\ req' = [req EXCEPT ![r] = NoRequest]
  /\ pc' = [pc EXCEPT ![r] = "idle"]
  /\ resp' = [resp EXCEPT ![r] = NoResponse]
  /\ calls' = [calls EXCEPT ![r] = <<>>]
  /\ verified' = [verified EXCEPT ![r] = "unchecked"]
  /\ parsedForm' = [parsedForm EXCEPT ![r] = FALSE]
  /\ UNCHANGED <<walk, chat, impl, env>>

Step(r) ==
  \/ Receive(r)
  \/ Fetch(r)
  \/ Verify(r)
  \/ Webhook(r)
  \/ PostDone(r)
  \/ AttachMetadata(r)
  \/ WebhookRespond(r)
  \/ Interact(r)
  \/ PatchDone(r)
  \/ UpdateDone(r)
  \/ InteractRespond(r)
  \/ Reset(r)

Next == \E r \in Solo : Step(r)

Spec == Init /\ [][Next]_vars

(***************************************************************************)
(* The life of one posted message: the chat platform keeps the message     *)
(* that a notify request posted, users click its controls, and a           *)
(* successful chat.update replaces what the platform shows                 *)
(***************************************************************************)
\* the controls of the actions blocks of a message
ControlsOf(message) ==
  LET blocks == Prop(message, "blocks").v
      actionBlocks == SelectSeq(blocks, LAMBDA b : StrEq(Prop(b, "type"), <<"actions">>))
  IN  UNION {{Prop(actionBlocks[i], "elements").v[j] :
                 j \in 1..Len(Prop(actionBlocks[i], "elements").v)} :
               i \in 1..Len(actionBlocks)}

\* the notify configurations whose message is followed
LifecycleConfigs ==
  {NotifyConfig(TheTemplate, Arr(<<Str(<<"C1">>)>>), b[1], b[2]) :
     b \in {<<ApproveButton, AckButton>>, <<ApproveButton, Undefined>>,
            <<ClearButton, ApproveButton>>}}

\* the message the platform keeps under timestamp ts once content has been written to it
Stored(ts, content) ==
  Obj([ts |-> ts, text |-> Prop(content, "text"), blocks |-> Prop(content, "blocks")])

Users == {Obj([name |-> Str(<<"Bo">>)]), Obj([name |-> Str(<<"Al">>)])}

\* the secured worker has posted one message to channel C1
LifecycleInit ==
  /\ impl = "secured"
  /\ env \in {e \in Envs(impl) : e.AIRTABLE_WEBHOOK_SECRET = <<"s">>}
  /\ req = [r \in Reqs |-> NoRequest]
  /\ pc = [r \in Reqs |-> "idle"]
  /\ resp = [r \in Reqs |-> NoResponse]
  /\ calls = [r \in Reqs |-> <<>>]
  /\ verified = [r \in Reqs |-> "unchecked"]
  /\ parsedForm = [r \in Reqs |-> FALSE]
  /\ \E config \in LifecycleConfigs :
       LET message == Stored(Str(<<"t1">>), SecuredFormatSlackMessage(TheRecord, config))
       IN  chat = [posted |-> message, shown |-> message]
  /\ walk = NoWalk

\* a user clicks a control of the message; the platform signs the interaction and echoes
\* the message, as it is shown now or as the user's client still displays it
Click(r) ==
  /\ pc[r] = "idle"
  /\ \E control \in ControlsOf(chat.posted), user \in Users,
        echo \in {chat.posted, chat.shown}, n \in Clock :
       LET action == Obj([action_id |-> Prop(control, "action_id"),
                          value |-> Prop(control, "value")])
           payload == Interaction(Str(<<"block_actions">>), Arr(<<action>>), user,
                                  TheChannel, echo)
           body == [bytes |-> <<"a">>, kind |-> "form", payload |-> JsonStringify(payload)]
       IN  req' = [req EXCEPT ![r] =
                     Request("POST",
                             ExpectedSignature(env.SLACK_SIGNING_SECRET, ToStr(Epoch), body.bytes),
                             ToStr(Epoch), Missing, body, n)]
  /\ pc' = [pc EXCEPT ![r] = "received"]
  /\ UNCHANGED <<walk, chat, impl, env, resp, calls, verified, parsedForm>>

\* a chat.update call settles; when it succeeds the platform shows the written content
UpdateApplied(r) ==
  /\ pc[r] \in {"updating", "done"}
  /\ \E i \in 1..Len(calls[r]), outcome \in Outcomes :
       /\ calls[r][i].api = "chat.update"
       /\ calls[r][i].state = "inflight"
       /\ Settle(r, i, outcome)
       /\ chat' = IF /\ outcome = "ok"
                     /\ calls[r][i].target = Obj([channel |-> Prop(TheChannel, "id"),
                                                  ts |-> Prop(chat.shown, "ts")])
                  THEN [chat EXCEPT !.shown = Stored(Prop(chat.shown, "ts"), calls[r][i].body)]
                  ELSE chat
  /\ UNCHANGED <<walk, impl, env, req, pc, resp, verified, parsedForm>>

LifecycleStep(r) ==
  \/ Click(r)
  \/ Fetch(r)
  \/ Verify(r)
  \/ Interact(r)
  \/ PatchDone(r)
  \/ UpdateApplied(r)
  \/ InteractRespond(r)
  \/ Reset(r)

LifecycleNext == \E r \in Solo : LifecycleStep(r)

Lifecycle == LifecycleInit /\ [][LifecycleNext]_vars

(***************************************************************************)
(* Requests in flight at the same time: one request is handled alone, from *)
(* its arrival to its answer, and then the same request is handled again   *)
(* while another request is in flight; the runtime interleaves the two     *)
(* handlers at every await                                                 *)
(***************************************************************************)
\* the slot of the request handled alone, and the slots handled concurrently
Racing == {1, 2}

Alone == CHOOSE r \in Reqs : r \notin Racing

ConcurrentImpls == {"secured", "worker"}

\* notify and interaction requests of a deployment whose secrets are "s" and "k"
ConcurrentRequests ==
  {Request("POST", Missing, Missing, <<"s">>,
           [bytes |-> <<"a">>, kind |-> "json", payload |-> j], Epoch) :
     j \in {JsonStringify(Obj([record |-> TheRecord,
                               config |-> NotifyConfig(TheTemplate, c, ApproveButton,
                                                       AckButton)])) :
              c \in ChannelLists} \cup {MalformedJson}}
  \cup {Request("POST", g, ToStr(Epoch), Missing,
                 [bytes |-> <<"a">>, kind |-> "form",
                  payload |-> JsonStringify(
                    Interaction(Str(<<"block_actions">>),
                                Arr(<<Obj([action_id |-> Str(a),
                                           value |-> JsonStringify(
                                             Obj([recordId |-> Str(<<"rec1">>),
                                                  buttonConfig |-> ApproveButton,
                                                  statusFieldName |-> Str(<<"Status">>)]))])>>),
                                TheUser, TheChannel, TheMessage))], Epoch) :
          a \in {<<"primary", "_action">>, <<"approve">>},
          g \in {ExpectedSignature(<<"k">>, ToStr(Epoch), <<"a">>), <<"v", "0", "=">>}}

ConcurrentInit ==
  /\ impl \in ConcurrentImpls
  /\ env \in {e \in Envs(impl) : impl = "secured" => e.AIRTABLE_WEBHOOK_SECRET = <<"s">>}
  /\ req = [r \in Reqs |-> NoRequest]
  /\ pc = [r \in Reqs |-> "idle"]
  /\ resp = [r \in Reqs |-> NoResponse]
  /\ calls = [r \in Reqs |-> <<>>]
  /\ verified = [r \in Reqs |-> "unchecked"]
  /\ parsedForm = [r \in Reqs |-> FALSE]
  /\ chat = [posted |-> TheMessage, shown |-> TheMessage]
  /\ walk = NoWalk

\* a request arrives while nothing else is in flight
ArriveAlone ==
  /\ \A r \in Reqs : pc[r] = "idle"
  /\ \E x \in ConcurrentRequests : req' = [req EXCEPT ![Alone] = x]
  /\ pc' = [pc EXCEPT ![Alone] = "received"]
  /\ UNCHANGED <<walk, chat, impl, env, resp, calls, verified, parsedForm>>

\* once the request handled alone is answered, the same request arrives again
\* together with any other request
ArriveRacing ==
  /\ pc[Alone] = "done"
  /\ \A r \in Racing : pc[r] = "idle"
  /\ \E y \in ConcurrentRequests : req' = [req EXCEPT ![1] = req[Alone], ![2] = y]
  /\ pc' = [r \in Reqs |-> IF r \in Racing THEN "received" ELSE pc[r]]
  /\ UNCHANGED <<walk, chat, impl, env, resp, calls, verified, parsedForm>>

ConcurrentStep(r) ==
  \/ Fetch(r)
  \/ Verify(r)
  \/ Webhook(r)
  \/ PostDone(r)
  \/ WebhookRespond(r)
  \/ Interact(r)
  \/ PatchDone(r)
  \/ UpdateDone(r)
  \/ InteractRespond(r)

ConcurrentNext == ArriveAlone \/ ArriveRacing \/ \E r \in Reqs : ConcurrentStep(r)

Concurrent == ConcurrentInit /\ [][ConcurrentNext]_vars

(***************************************************************************)
(* The comparison helper on its own: a configured secret and a received    *)
(* secret are drawn from all short strings and timingSafeEqual is applied  *)
(* to the pair                                                             *)
(***************************************************************************)
\* longest string compared
MaxSecretLen == 3

SecretChars == {"s", "x"}

ShortStrings == UNION {[1..n -> SecretChars] : n \in 0..MaxSecretLen}

ComparisonInit ==
  /\ impl = "secured"
  /\ \E a \in ShortStrings :
       env = [AIRTABLE_WEBHOOK_SECRET |-> a, SLACK_SIGNING_SECRET |-> <<"k">>,
              AIRTABLE_BASE_ID |-> Str(<<"app1">>), AIRTABLE_TABLE_NAME |-> Str(<<"tbl1">>)]
  /\ \E b \in ShortStrings :
       req = [r \in Reqs |->
                IF r \in Solo
                THEN Request("POST", Missing, Missing, b, NoRequest.body, Epoch)
                ELSE NoRequest]
  /\ pc = [r \in Reqs |-> IF r \in Solo THEN "received" ELSE "idle"]
  /\ resp = [r \in Reqs |-> NoResponse]
  /\ calls = [r \in Reqs |-> <<>>]
  /\ verified = [r \in Reqs |-> "unchecked"]
  /\ parsedForm = [r \in Reqs |-> FALSE]
  /\ chat = [posted |-> TheMessage, shown |-> TheMessage]
  /\ walk = NoWalk

\* timingSafeEqual(expectedSecret, receivedSecret) is called and returns
CompareSecrets(r) ==
  /\ pc[r] = "received"
  /\ verified' = [verified EXCEPT ![r] =
                    IF timingSafeEqual(env.AIRTABLE_WEBHOOK_SECRET, req[r].secret)
                    THEN "ok" ELSE "failed"]
  /\ pc' = [pc EXCEPT ![r] = "done"]
  /\ UNCHANGED <<walk, chat, impl, env, req, resp, calls, parsedForm>>

ComparisonNext == \E r \in Solo : CompareSecrets(r)

Comparison == ComparisonInit /\ [][ComparisonNext]_vars

(***************************************************************************)
(* The automation script's resolver on its own: resolveLinkedValue walks   *)
(* from the triggering record through lookup fields to a field that holds  *)
(* the value.  Every call makes at most one recursive call, so a structure *)
(* of links and lookups is a chain of slots (a field on a record): slots   *)
(* 1..len-1 are lookups that lead to the next slot, and the last slot is a *)
(* plain field, a link, an empty link, a field of another kind, or a       *)
(* lookup that leads back to a slot of the chain.  The last slot may sit   *)
(* on the record of an earlier slot.                                       *)
(***************************************************************************)
MAX_RECURSION_DEPTH == 5

\* longest chain of slots
MaxSlots == 8

TailKinds == {"value", "link", "empty", "other"}

Structures ==
  UNION {    {[len |-> n, tail |-> t, back |-> 0, home |-> h] : t \in TailKinds, h \in 1..n}
        \cup {[len |-> n, tail |-> "lookup", back |-> b, home |-> n] : b \in 1..n}
        : n \in 1..MaxSlots}

\* field.type of slot i
KindAt(w, i) == IF i < w.len THEN "lookup" ELSE w.tail

\* the record slot i sits on: `${currentTable.id}:${currentRecord.id}`
RecordAt(w, i) == IF i = w.len THEN w.home ELSE i

\* the slot a lookup at slot i leads to
NextSlot(w, i) == IF i < w.len THEN i + 1 ELSE w.back

\* the slot of the call that is running, and its depth argument: the
\* first call passes 0 and every recursive call depth + 1
Top(w) == w.frames[Len(w.frames)]

Depth(w) == Len(w.frames) - 1

\* a selectRecordAsync either yields the record or does not
Fetches == {"found", "absent"}

\* the string a resolved field holds
TheCellValue == <<"Acme">>

\* processTemplate calls resolveLinkedValue(.., 0, new Set()) for a placeholder
ResolutionInit ==
  /\ impl = "secured"
  /\ env = [AIRTABLE_WEBHOOK_SECRET |-> <<"s">>, SLACK_SIGNING_SECRET |-> <<"k">>,
            AIRTABLE_BASE_ID |-> Str(<<"app1">>), AIRTABLE_TABLE_NAME |-> Str(<<"tbl1">>)]
  /\ req = [r \in Reqs |-> NoRequest]
  /\ pc = [r \in Reqs |-> "idle"]
  /\ resp = [r \in Reqs |-> NoResponse]
  /\ calls = [r \in Reqs |-> <<>>]
  /\ verified = [r \in Reqs |-> "unchecked"]
  /\ parsedForm = [r \in Reqs |-> FALSE]
  /\ chat = [posted |-> TheMessage, shown |-> TheMessage]
  /\ \E s \in Structures :
       walk = [len |-> s.len, tail |-> s.tail, back |-> s.back, home |-> s.home,
               frames |-> <<1>>, visited |-> {}, outcome |-> "calling",
               cause |-> "none", value |-> <<>>]

\* the running call throws: the exception leaves every caller
Throw(w, seen, why) ==
  [w EXCEPT !.visited = seen, !.outcome = "thrown", !.cause = why]

\* the running call returns v to its caller, or to processTemplate
Return(w, seen, v) ==
  [w EXCEPT !.visited = seen, !.value = v,
            !.frames = SubSeq(w.frames, 1, Len(w.frames) - 1),
            !.outcome = IF Len(w.frames) = 1 THEN "returned" ELSE "returning"]

\* a resolver that looks at the depth only and never at the path
EnterWithoutCycleCheck ==
  /\ walk.outcome = "calling"
  /\ LET id == RecordAt(walk, Top(walk))
         seen == walk.visited \cup {id}
         kind == KindAt(walk, Top(walk))
     IN  \/ /\ Depth(walk) > MAX_RECURSION_DEPTH
            /\ walk' = Throw(walk, seen, "depth")
         \/ /\ Depth(walk) <= MAX_RECURSION_DEPTH
            /\ \/ /\ kind = "other"
                  /\ walk' = Throw(walk, seen, "unsupported")
               \/ /\ kind \in {"value", "link"}
                  /\ walk' = Return(walk, seen \ {id}, TheCellValue)
               \/ /\ kind = "empty"
                  /\ walk' = Return(walk, seen \ {id}, <<>>)
               \/ /\ kind \in {"link", "lookup"}
                  /\ walk' = Throw(walk, seen, "fetch")
               \/ /\ kind = "lookup"
                  /\ walk' = [walk EXCEPT !.visited = seen,
                                !.frames = Append(walk.frames, NextSlot(walk, Top(walk)))]
  /\ UNCHANGED <<chat, impl, env, req, pc, resp, calls, verified, parsedForm>>

\* the body of resolveLinkedValue, from its entry to its return, its throw
\* or its recursive call
Enter ==
  /\ walk.outcome = "calling"
  /\ LET id == RecordAt(walk, Top(walk))
         seen == walk.visited \cup {id}
         kind == KindAt(walk, Top(walk))
     IN  \/ /\ id \in walk.visited
            /\ walk' = Throw(walk, walk.visited, "cycle")
         \/ /\ id \notin walk.visited
            /\ Depth(walk) > MAX_RECURSION_DEPTH
            /\ walk' = Throw(walk, seen, "depth")
         \/ /\ id \notin walk.visited
            /\ Depth(walk) <= MAX_RECURSION_DEPTH
            /\ \/ /\ kind = "other"
                  /\ walk' = Throw(walk, seen, "unsupported")
               \/ /\ kind = "value"
                  /\ walk' = Return(walk, seen \ {id}, TheCellValue)
               \/ /\ kind = "empty"
                  /\ walk' = Return(walk, seen \ {id}, <<>>)
               \/ /\ kind = "link"
                  /\ \E fetched \in Fetches :
                       walk' = IF fetched = "found"
                               THEN Return(walk, seen \ {id}, TheCellValue)
                               ELSE Throw(walk, seen, "fetch")
               \/ /\ kind = "lookup"
                  /\ \E fetched \in Fetches :
                       walk' = IF fetched = "found"
                               THEN [walk EXCEPT !.visited = seen,
                                       !.frames = Append(walk.frames, NextSlot(walk, Top(walk)))]
                               ELSE Throw(walk, seen, "fetch")
  /\ UNCHANGED <<chat, impl, env, req, pc, resp, calls, verified, parsedForm>>

\* a lookup call receives the result of its recursive call, deletes its own
\* pair from visited and returns the result
Resume ==
  /\ walk.outcome = "returning"
  /\ walk' = Return(walk, walk.visited \ {RecordAt(walk, Top(walk))}, walk.value)
  /\ UNCHANGED <<chat, impl, env, req, pc, resp, calls, verified, parsedForm>>

ResolutionNext == Enter \/ Resume

\* an awaited call is resumed once its promise settles
Resolution == ResolutionInit /\ [][ResolutionNext]_vars /\ WF_vars(Enter) /\ WF_vars(Resume)

(***************************************************************************)
(* Vocabulary of the properties, stated on the request and not on the      *)
(* handler's control state                                                 *)
(***************************************************************************)
\* request r has been dispatched by fetch
Dispatched(r) == pc[r] \notin {"idle", "received"}

\* r is a POST that fetch routes to the notify pipeline
OnNotifyPath(r) == req[r].method = "POST" /\ ~Truthy(req[r].signature)

\* r is a POST that fetch routes to the interaction pipeline
OnInteractionPath(r) == req[r].method = "POST" /\ Truthy(req[r].signature)

\* the webhook secret of r is missing, unconfigured, or different from the configured one
BadWebhookSecret(r) ==
  \/ req[r].secret = Missing
  \/ env.AIRTABLE_WEBHOOK_SECRET = Missing
  \/ env.AIRTABLE_WEBHOOK_SECRET = <<>>
  \/ req[r].secret # env.AIRTABLE_WEBHOOK_SECRET

\* the signature of r is the one the signing secret yields for its timestamp and raw body
CorrectSignature(r) ==
  /\ env.SLACK_SIGNING_SECRET # Missing
  /\ req[r].timestamp # Missing
  /\ req[r].signature =
       ExpectedSignature(env.SLACK_SIGNING_SECRET, req[r].timestamp, req[r].body.bytes)

\* seconds between the timestamp of r and the moment r is handled
Age(r) == req[r].now - ParseInt(req[r].timestamp)

\* the timestamp of r is a number more than five minutes in the past
StaleTimestamp(r) ==
  /\ req[r].timestamp # Missing
  /\ ParseInt(req[r].timestamp) # NaN
  /\ Age(r) > 300

\* authentication of r fails
AuthenticationFails(r) ==
  \/ OnNotifyPath(r) /\ BadWebhookSecret(r)
  \/ /\ OnInteractionPath(r)
     /\ ~CorrectSignature(r) \/ StaleTimestamp(r)

\* r carries a JSON document with a record, a template and a list of channels
WellFormedNotify(r) ==
  /\ req[r].body.kind = "json"
  /\ req[r].body.payload.ok
  /\ LET payload == req[r].body.payload.val
     IN  /\ payload.t = "object"
         /\ Prop(payload, "record").t = "object"
         /\ Prop(Prop(payload, "record"), "fields").t = "object"
         /\ Prop(payload, "config").t = "object"
         /\ Prop(Prop(payload, "config"), "messageTemplate").t = "string"
         /\ Prop(Prop(payload, "config"), "slackChannelIds").t = "array"

\* the channel list of a well-formed notify request
ChannelIdsOf(r) == Prop(Prop(req[r].body.payload.val, "config"), "slackChannelIds").v

\* r is an authenticated, well-formed notify request
AcceptedNotify(r) == OnNotifyPath(r) /\ ~BadWebhookSecret(r) /\ WellFormedNotify(r)

CallsOf(r, api) == SelectSeq(calls[r], LAMBDA c : c.api = api)

(***************************************************************************)
(* C1 - Notify path fails closed (secured worker): a POST without a        *)
(* signature header whose X-Webhook-Secret is missing, whose configured    *)
(* secret is missing or empty, or whose secret differs from the configured *)
(* one is answered 401 and never enters the notify pipeline.               *)
(***************************************************************************)
C1_NotifyFailsClosed ==
  \A r \in Reqs :
    (impl = "secured" /\ Dispatched(r) /\ OnNotifyPath(r) /\ BadWebhookSecret(r))
      => /\ pc[r] = "done"
         /\ resp[r] = Response("Unauthorized", 401)
         /\ calls[r] = <<>>

\* a secret that only extends the configured one has been rejected
C1_Witness ==
  \E r \in Reqs :
    /\ impl = "secured" /\ pc[r] = "done" /\ OnNotifyPath(r)
    /\ env.AIRTABLE_WEBHOOK_SECRET = <<"s">>
    /\ req[r].secret = <<"s", "x">>
    /\ resp[r].status = 401

(***************************************************************************)
(* C2 - A request whose authentication fails issues no outbound call at    *)
(* all, in every variant of the worker.                                    *)
(***************************************************************************)
C2_NoCallOnAuthFailure ==
  \A r \in Reqs : (pc[r] # "idle" /\ AuthenticationFails(r)) => calls[r] = <<>>

(***************************************************************************)
(* C3 - An interaction request reaches the interaction handler only if its *)
(* signature is "v0=" followed by the hex HMAC of v0:{timestamp}:{rawBody} *)
(* under the signing secret; any other signature is answered 401.          *)
(***************************************************************************)
C3_OnlyExpectedSignatureAccepted ==
  \A r \in Reqs :
    (Dispatched(r) /\ pc[r] # "verifying" /\ OnInteractionPath(r) /\ ~CorrectSignature(r))
      => /\ ~parsedForm[r]
         /\ pc[r] = "done"
         /\ resp[r].status = 401

(***************************************************************************)
(* C4 - Secured worker: an interaction request whose timestamp is 301      *)
(* seconds or more in the past is answered 401, with no patch and no       *)
(* message update, even when its signature is correct.                     *)
(***************************************************************************)
C4_StaleTimestampRejected ==
  \A r \in Reqs :
    (impl = "secured" /\ Dispatched(r) /\ pc[r] # "verifying"
       /\ OnInteractionPath(r) /\ StaleTimestamp(r))
      => /\ pc[r] = "done"
         /\ resp[r].status = 401
         /\ calls[r] = <<>>

\* a correctly signed request exactly 301 seconds old has been rejected
C4_Witness ==
  \E r \in Reqs :
    /\ impl = "secured" /\ pc[r] = "done" /\ OnInteractionPath(r)
    /\ CorrectSignature(r)
    /\ Age(r) = 301
    /\ resp[r].status = 401

(***************************************************************************)
(* C5 - Secured worker: the body is interpreted as form data only after    *)
(* the signature has been verified, and the verified signature is the one  *)
(* of the raw bytes received.                                              *)
(***************************************************************************)
C5_VerifyRawBodyBeforeParse ==
  \A r \in Reqs :
    (impl = "secured" /\ parsedForm[r])
      => /\ verified[r] = "ok"
         /\ req[r].signature =
              ExpectedSignature(env.SLACK_SIGNING_SECRET, req[r].timestamp, req[r].body.bytes)

\* a verified request has had its form payload parsed
C5_Witness ==
  \E r \in Reqs :
    /\ impl = "secured" /\ parsedForm[r] /\ verified[r] = "ok"
    /\ req[r].body.kind = "form"

C7_OnePostPerChannel ==
  \A r \in Reqs :
    (impl = "secured" /\ pc[r] \in {"posting", "done"} /\ AcceptedNotify(r))
      => /\ Len(calls[r]) = Len(ChannelIdsOf(r))
         /\ \A i \in 1..Len(calls[r]) :
              /\ calls[r][i].api = "chat.postMessage"
              /\ calls[r][i].target = Obj([channel |-> ChannelIdsOf(r)[i]])

\* the first channel's call has failed and the second channel's call was issued all the same
C7_Witness ==
  \E r \in Reqs :
    /\ impl = "secured" /\ pc[r] = "posting" /\ AcceptedNotify(r)
    /\ Len(ChannelIdsOf(r)) = 2
    /\ Len(calls[r]) = 2
    /\ calls[r][1].state = "failed"
    /\ calls[r][2].api = "chat.postMessage"

(***************************************************************************)
(* C8 - Every interaction request that passes authentication is answered   *)
(* 200 "Interaction handled", whatever its payload and whatever the        *)
(* outcome of the patch and update calls.                                  *)
(***************************************************************************)
C8_InteractionAlwaysAcknowledged ==
  \A r \in Reqs :
    (pc[r] = "done" /\ OnInteractionPath(r) /\ resp[r].status # 401)
      => resp[r] = Response("Interaction handled", 200)

\* r is a click on a control whose encoded context does not decode
UndecodableContext(r) ==
  /\ req[r].body.kind = "form"
  /\ ~FormParseThrows(req[r].body)
  /\ LET p == FormPayload(req[r].body)
         action == First(Prop(p, "actions"))
     IN  /\ IsBlockActions(p)
         /\ EndsWith(Prop(action, "action_id"), "_action")
         /\ ~IsNullish(Prop(p, "user"))
         /\ \/ JsonParseThrows(Prop(action, "value"))
            \/ Prop(JsonParse(Prop(action, "value")), "recordId").t = "undefined"
            \/ Prop(JsonParse(Prop(action, "value")), "buttonConfig").t = "undefined"

(***************************************************************************)
(* C9 - Secured worker: when the clicked control's encoded context cannot  *)
(* be decoded (malformed JSON, or recordId / buttonConfig missing), no     *)
(* patch call is issued and the answer is still 200.                       *)
(***************************************************************************)
C9_DecodeFailureAcknowledged ==
  \A r \in Reqs :
    (impl = "secured" /\ pc[r] = "done" /\ verified[r] = "ok" /\ UndecodableContext(r))
      => /\ resp[r] = Response("Interaction handled", 200)
         /\ CallsOf(r, "airtable.patch") = <<>>

\* r is a click on a well-formed message by a known user in a known channel
RewritableClick(r) ==
  /\ ~FormParseThrows(req[r].body)
  /\ LET p == FormPayload(req[r].body)
     IN  /\ ~IsNullish(Prop(p, "user"))
         /\ ~IsNullish(Prop(p, "channel"))
         /\ Prop(Prop(p, "message"), "blocks").t = "array"

(***************************************************************************)
(* C10 - A failure of the patch-record call does not abort the interaction *)
(* pipeline: the update-message call is still issued afterwards and the    *)
(* answer is still 200.                                                    *)
(***************************************************************************)
C10_PatchFailureDoesNotAbort ==
  \A r \in Reqs :
    (/\ pc[r] = "done"
     /\ RewritableClick(r)
     /\ \E i \in 1..Len(calls[r]) :
          calls[r][i].api = "airtable.patch" /\ calls[r][i].state = "failed")
      => /\ CallsOf(r, "chat.update") # <<>>
         /\ resp[r] = Response("Interaction handled", 200)

\* r is a click whose payload the secured handler decodes down to a buttonConfig
DecodedClick(r) ==
  /\ ~FormParseThrows(req[r].body)
  /\ ~SecuredDecodeThrows(FormPayload(req[r].body))
  /\ SecuredMatches(FormPayload(req[r].body))

\* the buttonConfig decoded from the clicked control of r
ClickedButtonConfig(r) == Prop(ActionValue(FormPayload(req[r].body)), "buttonConfig")

\* the recordId decoded from the clicked control of r
ClickedRecordId(r) == Prop(ActionValue(FormPayload(req[r].body)), "recordId")

\* the button configuration carries a field and a value
CarriesBoth(buttonConfig) ==
  Prop(buttonConfig, "field").t # "undefined" /\ Prop(buttonConfig, "value").t # "undefined"

(***************************************************************************)
(* C11 - Secured worker: a patch-record call is issued only for a click    *)
(* whose button configuration carries both field and value.  A click on a  *)
(* button with neither, or with only one of the two, never has a patch     *)
(* call, however often it is processed, and is answered 200 like any other *)
(* click.                                                                  *)
(***************************************************************************)
C11_PatchOnlyWithFieldAndValue ==
  \A r \in Reqs :
    (impl = "secured" /\ Dispatched(r) /\ OnInteractionPath(r))
      => /\ CallsOf(r, "airtable.patch") # <<>>
              => DecodedClick(r) /\ CarriesBoth(ClickedButtonConfig(r))
         /\ (pc[r] = "done" /\ verified[r] = "ok" /\ DecodedClick(r) /\ RewritableClick(r)
                /\ ~CarriesBoth(ClickedButtonConfig(r)))
              => resp[r] = Response("Interaction handled", 200)

\* a click on a button that has a field and no value was acknowledged without a patch
C11_Witness ==
  \E r \in Reqs :
    /\ impl = "secured" /\ pc[r] = "done" /\ verified[r] = "ok" /\ DecodedClick(r)
    /\ ClickedButtonConfig(r) = FieldOnlyButton
    /\ CallsOf(r, "airtable.patch") = <<>>
    /\ CallsOf(r, "chat.update") # <<>>
    /\ resp[r].status = 200

(***************************************************************************)
(* C12 - Secured worker: a click whose button configuration has both field *)
(* and value issues a single patch request, addressed to the recordId      *)
(* decoded from the clicked control, whose body sets exactly that one      *)
(* field to exactly that one value and nothing else.                       *)
(***************************************************************************)
C12_SinglePatchOfOneField ==
  \A r \in Reqs :
    (impl = "secured" /\ pc[r] \in {"patching", "updating", "done"} /\ verified[r] = "ok"
       /\ DecodedClick(r) /\ CarriesBoth(ClickedButtonConfig(r)))
      => LET patches == CallsOf(r, "airtable.patch")
             buttonConfig == ClickedButtonConfig(r)
         IN  /\ Len(patches) = 1
             /\ Prop(patches[1].target, "recordId") = ClickedRecordId(r)
             /\ DOMAIN patches[1].body.v = {"fields"}
             /\ DOMAIN Prop(patches[1].body, "fields").v = {Prop(buttonConfig, "field").v[1]}
             /\ \A k \in DOMAIN Prop(patches[1].body, "fields").v :
                  Prop(patches[1].body, "fields").v[k] = Prop(buttonConfig, "value")

\* the click on the button that clears Status of rec2 has patched rec2 with a null value
C12_Witness ==
  \E r \in Reqs :
    /\ impl = "secured" /\ pc[r] = "done" /\ verified[r] = "ok" /\ DecodedClick(r)
    /\ ClickedButtonConfig(r) = ClearButton
    /\ Len(CallsOf(r, "airtable.patch")) = 1
    /\ Prop(CallsOf(r, "airtable.patch")[1].target, "recordId") = Str(<<"rec2">>)
    /\ CallsOf(r, "airtable.patch")[1].state = "ok"

(***************************************************************************)
(* C13 - Base/table identity travels with the button: the baseId and       *)
(* tableId of the notify config are serialized into the encoded context of *)
(* every control, and a click's patch request is addressed to the baseId   *)
(* and tableId decoded from the clicked control, not to the process-wide   *)
(* AIRTABLE_BASE_ID / AIRTABLE_TABLE_NAME.                                 *)
(***************************************************************************)
C13_BaseAndTableTravelWithButton ==
  \A r \in Reqs :
    /\ (impl = "secured" /\ pc[r] \in {"posting", "done"} /\ AcceptedNotify(r))
         => LET config == Prop(req[r].body.payload.val, "config")
            IN  \A i \in 1..Len(calls[r]) :
                  \A control \in ControlsOf(calls[r][i].body) :
                    /\ Prop(JsonParse(Prop(control, "value")), "baseId") = Prop(config, "baseId")
                    /\ Prop(JsonParse(Prop(control, "value")), "tableId") = Prop(config, "tableId")
    /\ (impl = "secured" /\ Dispatched(r) /\ OnInteractionPath(r) /\ verified[r] = "ok"
           /\ DecodedClick(r)
           /\ Prop(ActionValue(FormPayload(req[r].body)), "baseId").t = "string")
         => \A i \in 1..Len(calls[r]) :
              calls[r][i].api = "airtable.patch"
                => /\ Prop(calls[r][i].target, "baseId")
                       = Prop(ActionValue(FormPayload(req[r].body)), "baseId")
                   /\ Prop(calls[r][i].target, "tableId")
                       = Prop(ActionValue(FormPayload(req[r].body)), "tableId")

\* the controls of the message posted by notify request r, in order
PostedControls(r) ==
  LET blocks == Prop(calls[r][1].body, "blocks").v
      actionBlocks == SelectSeq(blocks, LAMBDA b : StrEq(Prop(b, "type"), <<"actions">>))
  IN  IF Len(actionBlocks) = 0 THEN <<>> ELSE Prop(actionBlocks[1], "elements").v

\* the button configuration of the notify request a posted control was built from
ConfiguredButton(r, control) ==
  Prop(Prop(req[r].body.payload.val, "config"),
       IF StrEq(Prop(control, "action_id"), <<"primary", "_action">>)
       THEN "primaryButton" ELSE "secondaryButton")

RECURSIVE SubstituteAll(_, _, _)
\* the template with every token of a field of the record replaced by the field's value
SubstituteAll(template, fields, i) ==
  IF i > Len(template) THEN <<>>
  ELSE LET keys == {k \in DOMAIN fields.v : Placeholder(k) = template[i]}
       IN  (IF keys = {} THEN <<template[i]>> ELSE ToText(fields.v[CHOOSE k \in keys : TRUE]))
           \o SubstituteAll(template, fields, i + 1)

\* the record and the template of an accepted notify request
RecordFieldsOf(r) == Prop(Prop(req[r].body.payload.val, "record"), "fields")

TemplateOf(r) == Prop(Prop(req[r].body.payload.val, "config"), "messageTemplate")

(***************************************************************************)
(* C15 - Template substitution (secured worker): the rendered text is the  *)
(* template with every occurrence of every {FieldName} token whose field   *)
(* is in record.fields replaced by the field's value, and every token of   *)
(* an absent field left verbatim.                                          *)
(***************************************************************************)
C15_TemplateSubstitution ==
  \A r \in Reqs :
    (impl = "secured" /\ pc[r] \in {"posting", "done"} /\ AcceptedNotify(r)
       /\ calls[r] # <<>>)
      => Prop(calls[r][1].body, "text")
           = Str(SubstituteAll(TemplateOf(r).v, RecordFieldsOf(r), 1))

\* the button is present and has a non-empty label
Qualifies(button) ==
  /\ button.t = "object"
  /\ Prop(button, "label").t = "string"
  /\ Len(Prop(button, "label").v) > 0

\* the configuration of an accepted notify request
ConfigOf(r) == Prop(req[r].body.payload.val, "config")

\* the action ids of the controls the configuration calls for, in order
QualifyingControls(config) ==
  (IF Qualifies(Prop(config, "primaryButton")) THEN <<"primaryButton">> ELSE <<>>)
  \o (IF Qualifies(Prop(config, "secondaryButton")) THEN <<"secondaryButton">> ELSE <<>>)

(***************************************************************************)
(* C16 - Secured worker: the rendered message has an actions block if and  *)
(* only if primaryButton or secondaryButton is present with a non-empty    *)
(* label; the block is then the single, last block and holds one control   *)
(* per such button, primary before secondary.  An absent button or one     *)
(* with an empty label contributes no control, and with no qualifying      *)
(* button the message is text only.                                        *)
(***************************************************************************)
C16_ActionBlockIffLabelledButton ==
  \A r \in Reqs :
    (impl = "secured" /\ pc[r] \in {"posting", "done"} /\ AcceptedNotify(r)
       /\ calls[r] # <<>>)
      => LET blocks == Prop(calls[r][1].body, "blocks").v
             actionBlocks == {i \in 1..Len(blocks) : StrEq(Prop(blocks[i], "type"), <<"actions">>)}
             wanted == QualifyingControls(ConfigOf(r))
             controls == PostedControls(r)
         IN  /\ actionBlocks = IF wanted = <<>> THEN {} ELSE {Len(blocks)}
             /\ Len(controls) = Len(wanted)
             /\ \A i \in 1..Len(controls) :
                  /\ ConfiguredButton(r, controls[i]) = Prop(ConfigOf(r), wanted[i])
                  /\ Prop(Prop(controls[i], "text"), "text") = Prop(Prop(ConfigOf(r), wanted[i]), "label")

\* the message the chat platform echoes in the click r
ClickedMessage(r) == Prop(FormPayload(req[r].body), "message")

\* the label of the control that was clicked
ClickedLabel(r) ==
  IF impl = "secured" THEN Prop(ClickedButtonConfig(r), "label")
  ELSE IF WorkerWantsPatch(FormPayload(req[r].body)) THEN Str(<<"Approve">>)
  ELSE Str(<<"Ignore">>)

\* the markdown text of a static block
StaticText(block) ==
  IF StrEq(Prop(block, "type"), <<"context">>)
  THEN Prop(First(Prop(block, "elements")), "text")
  ELSE Prop(Prop(block, "text"), "text")

\* what a markdown text reads once its emphasis marks are rendered
Reading(text) == SelectSeq(text.v, LAMBDA c : c # "*")

\* block is a static acknowledgment reading "{label} by {userName}"
IsAcknowledgment(block, label, userName) ==
  /\ Prop(block, "type").t = "string"
  /\ ~StrEq(Prop(block, "type"), <<"actions">>)
  /\ StaticText(block).t = "string"
  /\ Reading(StaticText(block)) = ToText(label) \o <<" by ">> \o ToText(userName)

(***************************************************************************)
(* C17 - The message rewrite replaces the actions block with one static    *)
(* acknowledgment block reading "{label} by {userName}", label being the   *)
(* label of the clicked button and userName the acting user, and leaves    *)
(* everything else unchanged: every other block keeps its content and      *)
(* position and the fallback text is the original message's.               *)
(***************************************************************************)
C17_RewriteReplacesOnlyActionBlock ==
  \A r \in Reqs :
    (Dispatched(r) /\ OnInteractionPath(r))
      => \A i \in 1..Len(calls[r]) :
           calls[r][i].api = "chat.update"
             => LET original == ClickedMessage(r)
                    rewritten == calls[r][i].body
                    userName == Prop(Prop(FormPayload(req[r].body), "user"), "name")
                IN  /\ Prop(rewritten, "text") = Prop(original, "text")
                    /\ Len(Prop(rewritten, "blocks").v) = Len(Prop(original, "blocks").v)
                    /\ \A j \in 1..Len(Prop(original, "blocks").v) :
                         IF StrEq(Prop(Prop(original, "blocks").v[j], "type"), <<"actions">>)
                         THEN IsAcknowledgment(Prop(rewritten, "blocks").v[j],
                                               ClickedLabel(r), userName)
                         ELSE Prop(rewritten, "blocks").v[j] = Prop(original, "blocks").v[j]

\* the message has an actions block
HasControls(message) ==
  \E i \in 1..Len(Prop(message, "blocks").v) :
    StrEq(Prop(Prop(message, "blocks").v[i], "type"), <<"actions">>)

(***************************************************************************)
(* C18 - Message lifecycle (secured worker): a message goes from Posted    *)
(* (with controls) to Updated (acknowledgment, no controls) and never      *)
(* back.  Under any sequence of authenticated clicks on the message, every *)
(* content written by an update-message call has no actions block, every   *)
(* change of the shown message leads to a message without controls, and a  *)
(* message without controls never has controls again.                      *)
(***************************************************************************)
C18_PostedThenUpdatedForGood ==
  /\ [](\A r \in Reqs : \A i \in 1..Len(calls[r]) :
          calls[r][i].api = "chat.update" => ~HasControls(calls[r][i].body))
  /\ [][chat.shown' # chat.shown => ~HasControls(chat.shown')]_vars
  /\ [][~HasControls(chat.shown) => ~HasControls(chat.shown')]_vars

\* the message is Updated, and a click from a client that still displays the controls
\* is about to write a second acknowledgment over it
C18_Witness ==
  \E r \in Reqs :
    /\ HasControls(chat.posted) /\ ~HasControls(chat.shown)
    /\ pc[r] = "updating" /\ DecodedClick(r)
    /\ ClickedMessage(r) = chat.posted
    /\ CallsOf(r, "chat.update") # <<>>
    /\ CallsOf(r, "chat.update")[1].state = "inflight"
    /\ ~HasControls(CallsOf(r, "chat.update")[1].body)
    /\ Prop(chat.shown, "blocks") # Prop(CallsOf(r, "chat.update")[1].body, "blocks")

\* the text and the blocks of a message
ContentOf(message) ==
  Obj([text |-> Prop(message, "text"), blocks |-> Prop(message, "blocks")])

BlockCount(message) == Len(Prop(message, "blocks").v)

(***************************************************************************)
(* C19 - The rewrite is idempotent (secured worker): rewriting a message   *)
(* that was already rewritten, for whichever button and user, yields the   *)
(* same message again, so a second click on an acknowledged message writes *)
(* back what the message already shows; the rewrite replaces the actions   *)
(* block and never appends, so the number of blocks never grows.           *)
(***************************************************************************)
C19_RewriteIdempotent ==
  /\ [](\A r \in Reqs : \A i \in 1..Len(calls[r]) :
          calls[r][i].api = "chat.update"
            => LET written == calls[r][i].body
               IN  /\ \A button \in {ApproveButton, AckButton, ClearButton}, user \in Users :
                        SecuredFormatUpdatedMessage(written, Prop(button, "label"),
                                                    Prop(user, "name")) = written
                   /\ BlockCount(written) = BlockCount(ClickedMessage(r))
                   /\ ~HasControls(ClickedMessage(r))
                        => written = ContentOf(ClickedMessage(r)))
  /\ [][BlockCount(chat.shown') <= BlockCount(chat.shown)]_vars

\* Al's click on the message that already reads "... by Bo" has written the same message
C19_Witness ==
  \E r \in Reqs :
    /\ pc[r] = "done" /\ DecodedClick(r)
    /\ ~HasControls(ClickedMessage(r))
    /\ Prop(Prop(FormPayload(req[r].body), "user"), "name") = Str(<<"Al">>)
    /\ CallsOf(r, "chat.update") # <<>>
    /\ CallsOf(r, "chat.update")[1].state = "ok"
    /\ ContentOf(chat.shown) = ContentOf(ClickedMessage(r))
    /\ \E j \in 1..BlockCount(chat.shown) :
         /\ StrEq(Prop(Prop(chat.shown, "blocks").v[j], "type"), <<"context">>)
         /\ Reading(StaticText(Prop(chat.shown, "blocks").v[j]))[3] = "Bo"

\* an update-message call of r has failed
UpdateFailed(r) ==
  \E i \in 1..Len(calls[r]) : calls[r][i].api = "chat.update" /\ calls[r][i].state = "failed"

(***************************************************************************)
(* C20 - A failure of the update-message call does not fail the            *)
(* interaction: the answer is still 200 "Interaction handled", and the     *)
(* patch already issued for the click is neither undone nor repeated: no   *)
(* further patch call is issued and the one issued stays as it settled.    *)
(* Secured worker and multi-channel worker.                                *)
(***************************************************************************)
C20_UpdateFailureStillAcknowledged ==
  /\ [](\A r \in Reqs :
          (impl \in {"secured", "worker"} /\ pc[r] = "done" /\ UpdateFailed(r))
            => /\ resp[r] = Response("Interaction handled", 200)
               /\ Len(CallsOf(r, "airtable.patch")) <= 1)
  /\ [][\A r \in Reqs :
          (UpdateFailed(r) /\ pc'[r] # "idle")
            => SelectSeq(calls'[r], LAMBDA c : c.api = "airtable.patch")
                 = CallsOf(r, "airtable.patch")]_vars

\* the patch succeeded, the update failed, and the click was acknowledged
C20_Witness ==
  \E r \in Reqs :
    /\ impl \in {"secured", "worker"} /\ pc[r] = "done" /\ UpdateFailed(r)
    /\ Len(CallsOf(r, "airtable.patch")) = 1
    /\ CallsOf(r, "airtable.patch")[1].state = "ok"
    /\ resp[r] = Response("Interaction handled", 200)

\* r carries an interaction payload whose kind is not "block_actions"
OtherInteractionKind(r) ==
  /\ ~FormParseThrows(req[r].body)
  /\ FormPayload(req[r].body).t = "object"
  /\ ~IsBlockActions(FormPayload(req[r].body))

(***************************************************************************)
(* C21 - Secured worker: an authenticated interaction whose kind is not    *)
(* "block_actions" is ignored: it is answered 200 "Interaction handled"    *)
(* and causes no patch call and no update-message call, even when it       *)
(* carries an action of a known button.                                    *)
(***************************************************************************)
C21_OtherKindIgnored ==
  \A r \in Reqs :
    (impl = "secured" /\ verified[r] = "ok" /\ OtherInteractionKind(r))
      => /\ calls[r] = <<>>
         /\ pc[r] \in {"interaction", "done"}
         /\ pc[r] = "done" => resp[r] = Response("Interaction handled", 200)

\* a message_action that carries the context of the Approve button was acknowledged
C21_Witness ==
  \E r \in Reqs :
    /\ impl = "secured" /\ verified[r] = "ok" /\ OtherInteractionKind(r) /\ pc[r] = "done"
    /\ StrEq(Prop(FormPayload(req[r].body), "type"), <<"message_action">>)
    /\ ~IsNullish(First(Prop(FormPayload(req[r].body), "actions")))
    /\ resp[r].status = 200
    /\ calls[r] = <<>>

\* the body of r is not JSON, or its config lacks the message template or the channel list
ValidationError(r) ==
  \/ JsonBodyThrows(req[r].body)
  \/ /\ JsonParse(req[r].body.payload).t = "object"
     /\ LET config == Prop(JsonParse(req[r].body.payload), "config")
        IN  \/ config.t # "object"
            \/ Prop(config, "messageTemplate").t # "string"
            \/ Prop(config, "slackChannelIds").t # "array"

(***************************************************************************)
(* C22 - Secured worker: on the notify path a validation error (a body     *)
(* that is not valid JSON, or a payload whose config lacks the message     *)
(* template or the channel id list) is rejected with a 400-class response, *)
(* before any post-message call is issued.                                 *)
(***************************************************************************)
C22_ValidationErrorIs400 ==
  \A r \in Reqs :
    (impl = "secured" /\ OnNotifyPath(r) /\ ~BadWebhookSecret(r) /\ Dispatched(r)
       /\ ValidationError(r))
      => /\ calls[r] = <<>>
         /\ pc[r] = "done" => resp[r].status \in 400..499

(***************************************************************************)
(* C23 - Every request whose method is not POST is answered 405 "Method    *)
(* not allowed", whatever headers and body it carries: no secret or        *)
(* signature is checked, neither pipeline runs and no outbound call is     *)
(* issued.  Both variants.                                                 *)
(***************************************************************************)
C23_NonPostIs405 ==
  \A r \in Reqs :
    (Dispatched(r) /\ req[r].method # "POST")
      => /\ pc[r] = "done"
         /\ resp[r] = Response("Method not allowed", 405)
         /\ calls[r] = <<>>
         /\ verified[r] = "unchecked"
         /\ ~parsedForm[r]

\* a GET with the right secret and a well-formed notify body was answered 405
C23_Witness ==
  \E r \in Reqs :
    /\ impl = "secured" /\ pc[r] = "done" /\ req[r].method = "GET"
    /\ ~Truthy(req[r].signature) /\ ~BadWebhookSecret(r) /\ WellFormedNotify(r)
    /\ resp[r].status = 405

\* the attach-metadata calls of notify request r
AttachCallsOf(r) ==
  SelectSeq(calls[r], LAMBDA c : c.api = "chat.update" /\ "metadata" \in DOMAIN c.body.v)

(***************************************************************************)
(* C24 - Two-phase send ordering (two-phase worker): every post-message    *)
(* call of a notify request has completed before any attach-metadata call  *)
(* of that request is issued; no attach-metadata call exists while a post  *)
(* call of the same request is still in flight, and the attach calls come  *)
(* after all the post calls.                                               *)
(***************************************************************************)
C24_PostsCompleteBeforeAttach ==
  \A r \in Reqs :
    (impl = "twophase" /\ Dispatched(r) /\ OnNotifyPath(r) /\ AttachCallsOf(r) # <<>>)
      => /\ \A i \in 1..Len(calls[r]) :
              calls[r][i].api = "chat.postMessage" => Settled(calls[r][i])
         /\ \A i, j \in 1..Len(calls[r]) :
              (calls[r][i].api = "chat.postMessage" /\ calls[r][j].api = "chat.update") => i < j

\* both posts have completed and the two attach calls are in flight
C24_Witness ==
  \E r \in Reqs :
    /\ impl = "twophase" /\ pc[r] = "attaching" /\ OnNotifyPath(r)
    /\ Len(CallsOf(r, "chat.postMessage")) = 2
    /\ Len(AttachCallsOf(r)) = 2
    /\ \A i \in 1..2 : AttachCallsOf(r)[i].state = "inflight"

\* the channel_info a message or an attach call carries
ChannelInfoOf(body) ==
  Prop(Prop(Prop(body, "metadata"), "event_payload"), "channel_info")

\* the channel_info that the copy posted by call number i of r carries once r is over
CarriedReceipts(r, i) ==
  LET post == CallsOf(r, "chat.postMessage")[i]
      channelId == Prop(post.target, "channel")
      attached == SelectSeq(AttachCallsOf(r),
                            LAMBDA c : /\ c.state = "ok"
                                       /\ c.target = Obj([channel |-> channelId,
                                                           ts |-> PostedTs(channelId)]))
  IN  IF Len(attached) > 0 THEN ChannelInfoOf(attached[Len(attached)].body)
      ELSE ChannelInfoOf(post.body)

(***************************************************************************)
(* C25 - Multi-channel design: after a notify request has finished, every  *)
(* posted copy carries as metadata the full list of receipts, one          *)
(* {channelId, ts} per channel posted to, ts being the timestamp that      *)
(* channel's post call returned, so that any copy gives the address of     *)
(* every sibling copy.                                                     *)
(***************************************************************************)
C25_EveryCopyCarriesAllReceipts ==
  \A r \in Reqs :
    (impl \in Unsecured /\ pc[r] = "done" /\ OnNotifyPath(r) /\ WellFormedNotify(r)
       /\ resp[r].status = 200)
      => \A i \in 1..Len(CallsOf(r, "chat.postMessage")) :
           CarriedReceipts(r, i) = Receipts(CallsOf(r, "chat.postMessage"))

\* r is a click its variant recognises and whose handling has reached the message rewrite
RewriteReached(r) ==
  /\ OnInteractionPath(r)
  /\ ~FormParseThrows(req[r].body)
  /\ IF impl = "secured"
     THEN ~SecuredDecodeThrows(FormPayload(req[r].body)) /\ SecuredMatches(FormPayload(req[r].body))
     ELSE ~WorkerDecodeThrows(FormPayload(req[r].body)) /\ WorkerMatches(FormPayload(req[r].body))
  /\ \/ pc[r] = "updating"
     \/ pc[r] = "done" /\ resp[r] = Response("Interaction handled", 200)

\* the receipts in the metadata of the message r was clicked on
ClickedReceipts(r) == ChannelInfoOf(ClickedMessage(r))

\* the clicked message carries a list of receipts
HasReceipts(r) ==
  /\ HasMetadata(FormPayload(req[r].body))
  /\ ClickedReceipts(r).t = "array"

(***************************************************************************)
(* C26 - On a recognised click the rewriter issues one update-message call *)
(* per target channel.  Single-channel design (secured worker): exactly    *)
(* one call, addressed to the origin channel id and the origin message     *)
(* timestamp.  Multi-channel designs: exactly one call per receipt in the  *)
(* metadata of the clicked message, addressed to that receipt's channel id *)
(* and timestamp, all calls carrying the same rewritten message.           *)
(***************************************************************************)
C26_OneUpdatePerTargetChannel ==
  \A r \in Reqs :
    RewriteReached(r)
      => LET p == FormPayload(req[r].body)
             updates == CallsOf(r, "chat.update")
         IN  /\ (impl = "secured" /\ ~IsNullish(Prop(p, "channel")))
                   => /\ Len(updates) = 1
                      /\ updates[1].target = Obj([channel |-> Prop(Prop(p, "channel"), "id"),
                                                   ts |-> Prop(Prop(p, "message"), "ts")])
             /\ (impl \in Unsecured /\ HasReceipts(r))
                   => /\ Len(updates) = Len(ClickedReceipts(r).v)
                      /\ \A i \in 1..Len(updates) :
                           /\ updates[i].target =
                                Obj([channel |-> Prop(ClickedReceipts(r).v[i], "channelId"),
                                     ts |-> Prop(ClickedReceipts(r).v[i], "ts")])
                           /\ updates[i].body = updates[1].body

C26_Witness ==
  \E r \in Reqs :
    /\ impl = "worker" /\ RewriteReached(r) /\ HasReceipts(r) /\ pc[r] = "updating"
    /\ Len(ClickedReceipts(r).v) = 2
    /\ Len(CallsOf(r, "chat.update")) = 2
    /\ CallsOf(r, "chat.update")[1].target # CallsOf(r, "chat.update")[2].target

\* everything the handling of request r holds
Local(r) == <<req[r], pc[r], resp[r], calls[r], verified[r], parsedForm[r]>>

\* the outbound calls of r, without how far each has got
IssuedBy(r) ==
  [i \in 1..Len(calls[r]) |-> [api |-> calls[r][i].api, target |-> calls[r][i].target,
                               body |-> calls[r][i].body]]

\* no outbound call of a met another fate than the call of b in the same position
SameFates(a, b) ==
  \A i \in 1..Len(calls[a]) :
    (i <= Len(calls[b]) /\ Settled(calls[a][i]) /\ Settled(calls[b][i]))
      => calls[a][i].state = calls[b][i].state

\* a step of the handler of one request leaves every other request, and everything
\* requests share, alone
OneRequestPerStep ==
  \A r \in Reqs :
    (pc[r] # "idle" /\ Local(r)' # Local(r))
      => /\ \A o \in Reqs \ {r} : Local(o)' = Local(o)
         /\ UNCHANGED <<impl, env, chat>>

(***************************************************************************)
(* C27 - Concurrent requests are independent.  A request handled while     *)
(* another notify or interaction request is in flight, under any           *)
(* interleaving of the two handlers, issues the outbound calls and gets    *)
(* the response it gets when it is handled alone, the platforms treating   *)
(* its calls alike; and no step of one request changes anything another    *)
(* request holds or anything requests share.                               *)
(***************************************************************************)
C27_ConcurrentRequestsIndependent ==
  /\ [](\A r \in Racing :
          (req[r] = req[Alone] /\ pc[r] = "done" /\ pc[Alone] = "done"
             /\ SameFates(r, Alone))
            => /\ IssuedBy(r) = IssuedBy(Alone)
               /\ resp[r] = resp[Alone])
  /\ [][OneRequestPerStep]_vars

C27_Witness ==
  /\ impl = "worker"
  /\ \A r \in Reqs : pc[r] = "done"
  /\ req[1] = req[Alone] /\ req[2] # req[1]
  /\ Len(CallsOf(1, "chat.postMessage")) = 2 /\ calls[1] = calls[Alone]
  /\ resp[1] = Response("Webhook processed", 200)
  /\ Len(CallsOf(2, "chat.postMessage")) = 1
  /\ resp[2] = Response("Error processing webhook", 500)

\* the message of the round-trip scenario: record rec1 {Name: "Acme"}, template
\* "Hi {Name}", primary button Approve / Status / Approved, no secondary button
RoundTripMessage ==
  Stored(Str(<<"t1">>),
         SecuredFormatSlackMessage(TheRecord,
                                   NotifyConfig(TheTemplate, Arr(<<Str(<<"C1">>)>>),
                                                ApproveButton, Undefined)))

\* r is a click by Bo on the posted message, and its handling has reached the rewrite
BoClicked(r) ==
  /\ RewriteReached(r)
  /\ ClickedMessage(r) = chat.posted
  /\ Prop(Prop(FormPayload(req[r].body), "user"), "name") = Str(<<"Bo">>)

\* the round trip of the scenario, the acknowledgment reading "{verdict} by Bo"
RoundTrip(verdict) ==
  chat.posted = RoundTripMessage
    => /\ ToText(Prop(chat.posted, "text")) = <<"Hi ", "Acme">>
       /\ Cardinality(ControlsOf(chat.posted)) = 1
       /\ \A r \in Reqs :
            BoClicked(r)
              => LET patches == CallsOf(r, "airtable.patch")
                     updates == CallsOf(r, "chat.update")
                 IN  /\ Len(patches) = 1
                     /\ Prop(patches[1].target, "recordId") = Str(<<"rec1">>)
                     /\ patches[1].body = Obj([fields |-> Obj([Status |-> Str(<<"Approved">>)])])
                     /\ Len(updates) = 1
                     /\ ~HasControls(updates[1].body)
                     /\ \E j \in 1..BlockCount(updates[1].body) :
                          IsAcknowledgment(Prop(updates[1].body, "blocks").v[j], verdict,
                                           Str(<<"Bo">>))

PostFailed(r) ==
  \E i \in 1..Len(calls[r]) :
    calls[r][i].api = "chat.postMessage" /\ calls[r][i].state = "failed"

(***************************************************************************)
(* C29 - Worker of src/src/index.ts (fan-out awaited with Promise.all):    *)
(* when the post-message call for any configured channel fails, the notify *)
(* request is answered 500 "Error processing webhook", never 200.          *)
(***************************************************************************)
C29_FailedPostIs500 ==
  \A r \in Reqs :
    (impl = "worker" /\ pc[r] = "done" /\ OnNotifyPath(r) /\ PostFailed(r))
      => resp[r] = Response("Error processing webhook", 500)

C29_Witness ==
  \E r \in Reqs :
    /\ impl = "worker" /\ pc[r] = "done" /\ OnNotifyPath(r)
    /\ Len(CallsOf(r, "chat.postMessage")) = 2
    /\ calls[r][1].state = "ok" /\ calls[r][2].state = "failed"
    /\ resp[r] = Response("Error processing webhook", 500)

\* the actions list of the payload of r
ActionsOf(r) == Prop(FormPayload(req[r].body), "actions")

\* r carries several actions, the first of them a control of the worker, and the
\* interaction handler has taken its decision
SeveralActionsHandled(r) ==
  /\ impl = "secured" /\ OnInteractionPath(r) /\ parsedForm[r]
  /\ pc[r] \in {"patching", "updating", "done"}
  /\ ~FormParseThrows(req[r].body)
  /\ IsBlockActions(FormPayload(req[r].body))
  /\ ActionsOf(r).t = "array" /\ Len(ActionsOf(r).v) >= 2
  /\ EndsWith(Prop(ActionsOf(r).v[1], "action_id"), "_action")

\* the context the action in position i of the payload of r carries
ContextAt(r, i) == JsonParse(Prop(ActionsOf(r).v[i], "value"))

(***************************************************************************)
(* C30 - Secured worker: the interaction decoder reads the first action of *)
(* the actions list only.  For a payload with several actions, the patch   *)
(* (if any) and the acknowledgment text are those of actions[0], at most   *)
(* one patch call is issued, and the remaining actions cause no outbound   *)
(* call and no error: the answer is 200 "Interaction handled".             *)
(***************************************************************************)
C30_FirstActionOnly ==
  \A r \in Reqs :
    SeveralActionsHandled(r)
      => LET buttonConfig == Prop(ContextAt(r, 1), "buttonConfig")
             patches == CallsOf(r, "airtable.patch")
             updates == CallsOf(r, "chat.update")
             expected == PatchCall(Prop(ContextAt(r, 1), "recordId"),
                                   Prop(buttonConfig, "field"), Prop(buttonConfig, "value"))
         IN  /\ Len(patches) =
                  IF JsTruthy(Prop(buttonConfig, "field"))
                       /\ Prop(buttonConfig, "value").t # "undefined" THEN 1 ELSE 0
             /\ \A i \in 1..Len(patches) :
                  patches[i].target = expected.target /\ patches[i].body = expected.body
             /\ Len(updates) <= 1
             /\ Len(calls[r]) = Len(patches) + Len(updates)
             /\ \A i \in 1..Len(updates) :
                  \E j \in 1..BlockCount(updates[i].body) :
                    IsAcknowledgment(Prop(updates[i].body, "blocks").v[j],
                                     Prop(buttonConfig, "label"),
                                     Prop(Prop(FormPayload(req[r].body), "user"), "name"))
             /\ pc[r] = "done" => resp[r] = Response("Interaction handled", 200)

\* the first action patches, the second is not even decodable, and all went well
C30_Witness ==
  \E r \in Reqs :
    /\ SeveralActionsHandled(r) /\ pc[r] = "done"
    /\ JsonParseThrows(Prop(ActionsOf(r).v[2], "value"))
    /\ Len(calls[r]) = 2
    /\ calls[r][1].api = "airtable.patch" /\ calls[r][1].state = "ok"
    /\ calls[r][2].api = "chat.update" /\ calls[r][2].state = "ok"
    /\ resp[r] = Response("Interaction handled", 200)

(***************************************************************************)
(* C31 - Fire all, await all (secured worker and multi-channel worker):    *)
(* the notify response is produced only after the post-message call of     *)
(* every configured channel has completed, succeeded or failed.  The       *)
(* handler never has answered while a post call of the request is still in *)
(* flight, also when the call of another channel has already failed.       *)
(***************************************************************************)
C31_AnswerAfterEveryPostSettled ==
  \A r \in Reqs :
    (impl \in {"secured", "worker"} /\ pc[r] = "done" /\ OnNotifyPath(r))
      => \A i \in 1..Len(calls[r]) :
           calls[r][i].api = "chat.postMessage" => Settled(calls[r][i])

\* the orders in which Object.entries may deliver the given keys
Orders(keys) ==
  {o \in [1..Cardinality(keys) -> keys] : \A i, j \in DOMAIN o : o[i] = o[j] => i = j}

\* no chunk of the template occurs twice
NoRepeat(template) ==
  \A i, j \in 1..Len(template.v) : template.v[i] = template.v[j] => i = j

(***************************************************************************)
(* C32 - Rendering is deterministic in the record's content only (secured  *)
(* worker and multi-channel worker): for a fixed template and fixed field  *)
(* name/value pairs the rendered text is the same whatever the iteration   *)
(* order of record.fields, and a substituted value that itself contains a  *)
(* {OtherField} token is inserted verbatim: substituted values are never   *)
(* scanned for placeholders again.                                         *)
(***************************************************************************)
C32_RenderingOrderIndependent ==
  \A r \in Reqs :
    (impl \in {"secured", "worker"} /\ Dispatched(r) /\ OnNotifyPath(r)
       /\ CallsOf(r, "chat.postMessage") # <<>>)
      => LET record == Prop(req[r].body.payload.val, "record")
             config == Prop(req[r].body.payload.val, "config")
             text == Prop(CallsOf(r, "chat.postMessage")[1].body, "text")
         IN  /\ \A o \in Orders(DOMAIN RecordFieldsOf(r).v) :
                  RenderText(Obj([id |-> Prop(record, "id"),
                                  fields |-> Fields(o, RecordFieldsOf(r).v)]), config) = text
             /\ (TemplateOf(r).t = "string" /\ NoRepeat(TemplateOf(r)))
                  => ToText(text) = SubstituteAll(TemplateOf(r).v, RecordFieldsOf(r), 1)

\* the interaction request r carries a numeric timestamp and the signature the signing
\* secret gives for that timestamp and the body, and its verification is over
CorrectlySigned(r) ==
  /\ impl = "secured" /\ OnInteractionPath(r)
  /\ verified[r] # "unchecked"
  /\ Truthy(req[r].timestamp) /\ ParseInt(req[r].timestamp) # NaN
  /\ Len(req[r].body.bytes) > 0
  /\ req[r].signature =
       ExpectedSignature(env.SLACK_SIGNING_SECRET, req[r].timestamp, req[r].body.bytes)

(***************************************************************************)
(* C33 - The staleness check on the interaction timestamp is one-sided     *)
(* with an inclusive boundary (secured worker): with a correct signature,  *)
(* a request whose timestamp t satisfies t >= now - 300 passes, also when  *)
(* t is exactly 300 seconds old and when t lies in the future; only        *)
(* t < now - 300 is rejected.                                              *)
(***************************************************************************)
C33_StalenessOneSidedInclusive ==
  \A r \in Reqs :
    CorrectlySigned(r)
      => (verified[r] = "ok" <=> ParseInt(req[r].timestamp) >= req[r].now - 300)

\* a request exactly 300 seconds old has passed
C33_Witness ==
  \E r \in Reqs :
    /\ CorrectlySigned(r) /\ verified[r] = "ok"
    /\ ParseInt(req[r].timestamp) = req[r].now - 300

\* the action ids of the two controls formatSlackMessage creates
ControlIds == {<<"primary", "_action">>, <<"secondary", "_action">>}

\* r is an authenticated block action whose first action is none of the two controls
ForeignControl(r) ==
  /\ impl = "secured" /\ OnInteractionPath(r) /\ verified[r] = "ok"
  /\ ~FormParseThrows(req[r].body)
  /\ IsBlockActions(FormPayload(req[r].body))
  /\ ActionsOf(r).t = "array" /\ Len(ActionsOf(r).v) > 0
  /\ Prop(ActionsOf(r).v[1], "action_id").t = "string"
  /\ Prop(ActionsOf(r).v[1], "action_id").v \notin ControlIds

(***************************************************************************)
(* C34 - Secured worker: only the two controls the renderer creates can    *)
(* trigger effects.  An authenticated block action whose first action id   *)
(* is neither the primary nor the secondary control id, for example any    *)
(* other id ending in "_action", issues no patch call and no               *)
(* update-message call.                                                    *)
(***************************************************************************)
C34_OnlyRenderedControlsAct ==
  \A r \in Reqs :
    ForeignControl(r)
      => /\ CallsOf(r, "airtable.patch") = <<>>
         /\ CallsOf(r, "chat.update") = <<>>

\* an update-message call of r is addressed to the message the click occurred on
ClickedMessageRewritten(r) ==
  \E i \in 1..Len(calls[r]) :
    /\ calls[r][i].api = "chat.update"
    /\ calls[r][i].target =
         Obj([channel |-> Prop(Prop(FormPayload(req[r].body), "channel"), "id"),
              ts |-> Prop(ClickedMessage(r), "ts")])

(***************************************************************************)
(* C35 - Multi-channel worker of src/src/index.ts: every recognised click  *)
(* issues an update-message call addressed to the channel and message      *)
(* timestamp where the click occurred, so the clicked message itself is    *)
(* always rewritten, also when the metadata is present with an empty       *)
(* receipt list or with receipts that carry no timestamp, and when the     *)
(* metadata is missing altogether.                                         *)
(***************************************************************************)
C35_ClickedMessageAlwaysRewritten ==
  \A r \in Reqs :
    (impl = "worker" /\ RewriteReached(r)
       /\ ~IsNullish(Prop(FormPayload(req[r].body), "channel"))
       /\ ~IsNullish(ClickedMessage(r)))
      => ClickedMessageRewritten(r)

(***************************************************************************)
(* C36 - Dispatch is exclusive and decided by header presence alone        *)
(* (secured worker and multi-channel worker): a POST with a non-empty      *)
(* X-Slack-Signature header is handled only by the interaction pipeline    *)
(* and never causes a post-message call, even if it also carries a valid   *)
(* X-Webhook-Secret; a POST without that header is handled only by the     *)
(* notify pipeline and never causes a patch or an update-message call.     *)
(***************************************************************************)
C36_DispatchExclusive ==
  \A r \in Reqs :
    (impl \in {"secured", "worker"} /\ req[r].method = "POST")
      => /\ Truthy(req[r].signature)
              => /\ CallsOf(r, "chat.postMessage") = <<>>
                 /\ pc[r] \notin {"webhook", "posting"}
         /\ ~Truthy(req[r].signature)
              => /\ CallsOf(r, "airtable.patch") = <<>>
                 /\ CallsOf(r, "chat.update") = <<>>
                 /\ pc[r] \notin {"verifying", "interaction", "patching", "updating"}

\* a signed click that also carries the valid webhook secret went through the
\* interaction pipeline, patch and update included
C36_Witness ==
  \E r \in Reqs :
    /\ impl = "secured" /\ pc[r] = "done" /\ req[r].method = "POST"
    /\ Truthy(req[r].signature) /\ req[r].secret = env.AIRTABLE_WEBHOOK_SECRET
    /\ Truthy(env.AIRTABLE_WEBHOOK_SECRET)
    /\ verified[r] = "ok"
    /\ CallsOf(r, "airtable.patch") # <<>> /\ CallsOf(r, "chat.update") # <<>>
    /\ CallsOf(r, "chat.postMessage") = <<>>

Resolved == walk.outcome \in {"returned", "thrown"}

\* the running call has been made with a table:record pair that is already
\* on the path
OnPathAgain == walk.outcome = "calling" /\ RecordAt(walk, Top(walk)) \in walk.visited

\* this step makes a recursive call
Recurses == Len(walk'.frames) > Len(walk.frames)

\* C38: resolveLinkedValue terminates on every structure of links and
\* lookups, cyclic ones included: the resolution always ends, and it ends
\* with a string returned to processTemplate or with an error thrown; a
\* recursive call is made only by a call whose depth is at most 5 and whose
\* pair was not on the path, so no call deeper than 6 is ever made; and a
\* call made with a pair that is already on the path throws the cycle error
\* without calling further.
C38_ResolutionTerminates ==
  /\ [](/\ walk.outcome = "returned" =>
             walk.frames = <<>> /\ walk.value \in {<<>>, TheCellValue}
        /\ walk.outcome = "thrown" => walk.cause # "none"
        /\ Depth(walk) <= MAX_RECURSION_DEPTH + 1)
  /\ [][/\ Recurses => Depth(walk) <= MAX_RECURSION_DEPTH /\ ~OnPathAgain
        /\ OnPathAgain => /\ walk'.outcome = "thrown"
                          /\ walk'.cause = "cycle"
                          /\ walk'.frames = walk.frames]_vars
  /\ <>Resolved

\* a lookup that leads back to the record the walk started from has thrown
\* the cycle error, two calls deep or deeper
C38_Witness ==
  /\ walk.outcome = "thrown"
  /\ walk.cause = "cycle"
  /\ walk.tail = "lookup"
  /\ Len(walk.frames) >= 3

====
